---- MODULE Spec2Model ----
(***************************************************************************)
(* A model of SFML's X11 window backend (WindowImplX11.cpp): the event     *)
(* pump that drains the shared Xlib event queue, the visibility wait, the  *)
(* focus request, the XRandR video mode switch and the pointer grab.       *)
(*                                                                         *)
(* The program state is kept in `win` (the member fields of each           *)
(* WindowImplX11), the file-level globals fullscreenWindow, allWindows and *)
(* isKeyFiltered, and `th` (the call each window's thread is in, with the  *)
(* locals of processEvents).  The X server and Xlib are the environment:   *)
(* `xqueue` is the connection's event queue and `xsrv` the server state    *)
(* the code reads and writes through Xlib.  `lastOp` records the step just *)
(* taken together with its inputs.                                         *)
(***************************************************************************)
EXTENDS Integers, Sequences, FiniteSets, TLC

VARIABLES win, fullscreenWindow, allWindows, isKeyFiltered, th, xqueue, xsrv, lastOp,
          audioStream

vars == <<win, fullscreenWindow, allWindows, isKeyFiltered, th, xqueue, xsrv, lastOp,
          audioStream>>

----------------------------------------------------------------------------
(* Bounds of the model *)

\* number of X events the server generates spontaneously in one behaviour
MaxEvents == 3
\* largest server timestamp
MaxTime == 2
\* largest key code the keyboard sends (0 is the code of text-only events)
MaxKeycode == 1

\* the map and visibility events the server queues for one window are held back
\* while this many events for the window wait in the queue
MaxQueued == 2
\* XMapWindow and XUnmapWindow requests for one window the server has yet to handle
MaxRequests == 1

----------------------------------------------------------------------------
(* Program constants *)

\* the two WindowImplX11 objects of the model, named by their X window id
Windows == {1, 2}
\* a null window handle / the null pointer / the atom None
None == 0
\* DefaultRootWindow(display): an id that is no window of the program
RootWindow == Cardinality(Windows) + 1
maxTrialsCount == 5

Keycodes == 0..MaxKeycode
Times == 0..MaxTime

VisibilityStates == {"VisibilityUnobscured", "VisibilityPartiallyObscured", "VisibilityFullyObscured"}
MapStates == {"IsUnmapped", "IsUnviewable", "IsViewable"}

\* An XEvent.  Every record has the same fields; a field an event type does not
\* carry holds its zero value.
XEvent(type, window) ==
    [type |-> type, window |-> window, keycode |-> 0, time |-> 0, message_type |-> "None",
     format |-> 0, data0 |-> "None", filtered |-> FALSE, text |-> FALSE, state |-> "None",
     data |-> <<>>, size |-> <<0, 0>>, position |-> <<0, 0>>, button |-> 0]

KeyEvent(type, window, keycode, time, filtered, text) ==
    [XEvent(type, window) EXCEPT !.keycode = keycode, !.time = time, !.filtered = filtered, !.text = text]

ClientMessageEvent(window, message_type, format, data0, filtered) ==
    [XEvent("ClientMessage", window) EXCEPT !.message_type = message_type, !.format = format,
                                            !.data0 = data0, !.filtered = filtered]

VisibilityEvent(window, state) == [XEvent("VisibilityNotify", window) EXCEPT !.state = state]

NoEvent == XEvent("None", None)

\* an Xdnd ClientMessage: data holds xclient.data.l[0..4]
XdndEvent(window, message_type, data) ==
    [XEvent("ClientMessage", window) EXCEPT !.message_type = message_type, !.format = 32,
                                            !.data = data]

\* The sf::Event values pushEvent receives
SfEvent(type) ==
    [type |-> type, size |-> <<0, 0>>, position |-> <<0, 0>>, button |-> "None", code |-> 0,
     filenames |-> <<>>, wheel |-> "None", delta |-> 0]
SfKeyEvent(type, code) == [SfEvent(type) EXCEPT !.code = code]

----------------------------------------------------------------------------
(* XRandR: the modes of the screen resources and the CRTCs *)

Crtcs == {1, 2}
\* res->modes, in order: the RRMode ids with their width and height
ResModes == <<[id |-> 1, width |-> 2, height |-> 1],
              [id |-> 2, width |-> 3, height |-> 1],
              [id |-> 3, width |-> 3, height |-> 3],
              [id |-> 4, width |-> 2, height |-> 1]>>
ModeIds == {ResModes[i].id : i \in 1..Len(ResModes)}
\* the sizes a VideoMode can ask for
VideoModes == {<<2, 1>>, <<1, 2>>, <<3, 3>>, <<2, 2>>}
Rotations == {"RR_Rotate_0", "RR_Rotate_90", "RR_Rotate_180", "RR_Rotate_270"}

----------------------------------------------------------------------------
(* The state the handlers read and write, bundled so that handlers compose *)

Bundle == [win |-> win, fullscreenWindow |-> fullscreenWindow,
           isKeyFiltered |-> isKeyFiltered, xsrv |-> xsrv]

\* WindowImpl::pushEvent: append to the window's queue of sf::Event
pushEvent(B, w, ev) == [B EXCEPT !.win[w].m_events = Append(@, ev)]

----------------------------------------------------------------------------
(* Helpers of the video mode switch and of cleanup *)

\* WindowImplX11::checkXRandR: whether XQueryExtension finds "RANDR"
checkXRandR(o) == o.xrandr

\* XRRSetCrtcConfig(crtc, ..., mode, ...) as the server applies it
XRRSetCrtcConfig(B, crtc, mode) == [B EXCEPT !.xsrv.crtcMode[crtc] = mode]

\* resetVideoMode reconfiguring the CRTC of the output that is primary now
resetVideoMode_CurrentPrimary(B, w, o) ==
    IF B.fullscreenWindow = w
    THEN IF checkXRandR(o)
         THEN IF ~o.res THEN B
              ELSE IF ~o.crtcInfo THEN B
              ELSE [XRRSetCrtcConfig(B, B.xsrv.primaryCrtc, B.win[w].m_oldVideoMode)
                       EXCEPT !.fullscreenWindow = None]
         ELSE [B EXCEPT !.fullscreenWindow = None]
    ELSE B

\* WindowImplX11::resetVideoMode
resetVideoMode(B, w, o) ==
    IF B.fullscreenWindow = w
    THEN IF checkXRandR(o)
         THEN IF ~o.res THEN B
              ELSE IF ~o.crtcInfo THEN B
              ELSE [XRRSetCrtcConfig(B, B.win[w].m_oldRRCrtc, B.win[w].m_oldVideoMode)
                       EXCEPT !.fullscreenWindow = None]
         ELSE [B EXCEPT !.fullscreenWindow = None]
    ELSE B

\* WindowImplX11::setMouseCursorVisible: XDefineCursor with m_lastCursor or
\* m_hiddenCursor, which the server refuses (BadWindow) once the window is destroyed
setMouseCursorVisible(B, w, visible) ==
    IF B.win[w].m_window = None \/ B.xsrv.destroyed[w] THEN B
    ELSE [B EXCEPT !.xsrv.cursor[w] = IF visible THEN "m_lastCursor" ELSE "m_hiddenCursor"]

\* WindowImplX11::cleanup
cleanup(B, w, o) == setMouseCursorVisible(resetVideoMode(B, w, o), w, TRUE)

\* the loop of XGrabPointer trials running one trial more than maxTrialsCount
RECURSIVE GrabLoop_OneMore(_, _)
GrabLoop_OneMore(o, trial) ==
    IF ~(trial <= maxTrialsCount) THEN [grabbed |-> FALSE, calls |-> trial]
    ELSE IF trial >= o.grabFailures THEN [grabbed |-> TRUE, calls |-> trial + 1]
    ELSE GrabLoop_OneMore(o, trial + 1)

\* The loop of XGrabPointer trials from the given trial on (the first
\* o.grabFailures calls fail, every later one returns GrabSuccess): whether a
\* trial succeeded and how many calls of XGrabPointer were made in all
RECURSIVE GrabLoop(_, _)
GrabLoop(o, trial) ==
    IF ~(trial < maxTrialsCount) THEN [grabbed |-> FALSE, calls |-> trial]
    ELSE IF trial >= o.grabFailures THEN [grabbed |-> TRUE, calls |-> trial + 1]
    ELSE GrabLoop(o, trial + 1)

\* the pointer is grabbed iff one of the maxTrialsCount trials succeeds
GrabSucceeds(o) == GrabLoop(o, 0).grabbed

\* WindowImplX11::updateLastInputTime
updateLastInputTime(B, w, time) ==
    IF time # 0 /\ time # B.win[w].m_lastInputTime
    THEN [B EXCEPT !.win[w].m_lastInputTime = time]
    ELSE B

----------------------------------------------------------------------------
(* WindowImplX11::processEvent, one operator per case of its switch.       *)
(* Each takes the state bundle, the window, the XEvent and the outcomes o  *)
(* of the Xlib calls the case makes, and yields the bundle afterwards.     *)

\* case DestroyNotify
onDestroyNotify(B, w, e, o) == cleanup(B, w, o)

\* case FocusIn
onFocusIn(B, w, e, o) ==
    LET B1 == IF B.win[w].m_cursorGrabbed /\ GrabSucceeds(o)
              THEN [B EXCEPT !.xsrv.pointerGrab = B.win[w].m_window,
                             !.win[w].m_cursorGrabbed = TRUE]
              ELSE B
        B2 == pushEvent(B1, w, SfEvent("FocusGained"))
    IN  IF B2.xsrv.wmHints[w] # "none"
        THEN [B2 EXCEPT !.xsrv.wmHints[w] = "set"]
        ELSE B2

\* case FocusOut
onFocusOut(B, w, e, o) ==
    LET B1 == IF B.win[w].m_cursorGrabbed
              THEN [B EXCEPT !.xsrv.pointerGrab = None]
              ELSE B
    IN  pushEvent(B1, w, SfEvent("FocusLost"))

\* onClientMessage without the test of the message format
onClientMessage_AnyFormat(B, w, e, o) ==
    IF ~e.filtered /\ e.message_type = "WM_PROTOCOLS" /\ e.data0 = "WM_DELETE_WINDOW"
    THEN pushEvent(B, w, SfEvent("Closed"))
    ELSE B

\* WindowImplX11::canAcceptFileType
canAcceptFileType(fileType) == fileType \in {"text/uri-list"}

\* the loops over the types a drag source offers: the first one canAcceptFileType
\* accepts, "None" (the atom None) if there is none
RECURSIVE FirstAccepted(_)
FirstAccepted(types) ==
    IF types = <<>> THEN "None"
    ELSE IF canAcceptFileType(Head(types)) THEN Head(types)
    ELSE FirstAccepted(Tail(types))

\* XSendEvent(m_display, m_dropSource, ...) of a ClientMessage whose window is
\* m_dropSource too
SendToDropSource(B, w, message_type, data) ==
    [B EXCEPT !.xsrv.xdndSent = Append(@, [window |-> B.win[w].m_dropSource,
                                           message_type |-> message_type,
                                           data |-> data,
                                           to |-> B.win[w].m_dropSource])]

\* XdndDrop replying with accepted = 1 whether or not a type was accepted
onXdndDrop_AlwaysAccepts(B, w, e, o) ==
    LET accepted == B.win[w].m_acceptedFileType # "None"
        B1 == IF accepted
              THEN [B EXCEPT !.xsrv.conversions = @ \cup
                       {[time |-> e.data[3], selection |-> "XdndSelection",
                         target |-> B.win[w].m_acceptedFileType,
                         property |-> "XDND_DATA", requestor |-> B.win[w].m_window]}]
              ELSE B
        B2 == SendToDropSource(B1, w, "XdndFinished",
                               <<B.win[w].m_window, 1, "XdndActionCopy">>)
    IN  [B2 EXCEPT !.win[w].m_acceptedFileType = "None", !.win[w].m_dropSource = None]

\* case ClientMessage, message XdndDrop
onXdndDrop(B, w, e, o) ==
    LET accepted == B.win[w].m_acceptedFileType # "None"
        B1 == IF accepted
              THEN [B EXCEPT !.xsrv.conversions = @ \cup
                       {[time |-> e.data[3], selection |-> "XdndSelection",
                         target |-> B.win[w].m_acceptedFileType,
                         property |-> "XDND_DATA", requestor |-> B.win[w].m_window]}]
              ELSE B
        B2 == SendToDropSource(B1, w, "XdndFinished",
                               IF accepted THEN <<B.win[w].m_window, 1, "XdndActionCopy">>
                               ELSE <<B.win[w].m_window, 0, "None">>)
    IN  [B2 EXCEPT !.win[w].m_acceptedFileType = "None", !.win[w].m_dropSource = None]

\* case ClientMessage, the Xdnd messages.  XdndEnter reads the types from the
\* message, or, when bit 0 of data.l[1] is set, from the property XdndTypeList of
\* the source (o.typeList: whether XGetWindowProperty succeeds, whether the
\* property has a type, and its atoms)
onXdndMessage(B, w, e, o) ==
    CASE e.message_type = "XdndPosition" ->
           SendToDropSource(B, w, "XdndStatus",
                            <<B.win[w].m_window,
                              IF B.win[w].m_acceptedFileType # "None" THEN 1 ELSE 0,
                              0, 0, "XdndActionCopy">>)
      [] e.message_type = "XdndEnter" ->
           [B EXCEPT !.win[w].m_dropSource = e.data[1],
                     !.win[w].m_acceptedFileType =
                        IF e.data[2] % 2 = 1
                        THEN IF o.typeList.success /\ o.typeList.hasType
                             THEN FirstAccepted(o.typeList.atoms)
                             ELSE "None"
                        ELSE FirstAccepted(SubSeq(e.data, 3, 5))]
      [] e.message_type = "XdndDrop" -> onXdndDrop(B, w, e, o)
      [] e.message_type = "XdndLeave" ->
           [B EXCEPT !.win[w].m_acceptedFileType = "None", !.win[w].m_dropSource = None]
      [] OTHER -> B

\* the characters of "file://"
FilePrefix == <<"f", "i", "l", "e", ":", "/", "/">>
\* String::InvalidPos
InvalidPos == -1

\* String::find(str, start): the first position (from 0) at or after start where
\* str occurs in s, InvalidPos if there is none
find(s, str, start) ==
    LET at == {p \in start..(Len(s) - Len(str)) : SubSeq(s, p + 1, p + Len(str)) = str}
    IN  IF at = {} THEN InvalidPos ELSE CHOOSE p \in at : \A q \in at : p <= q

\* String::substring(position, length)
substring(s, position, length) ==
    SubSeq(s, position + 1, IF position + length < Len(s) THEN position + length ELSE Len(s))

\* case SelectionNotify: split filenames into filenamesVector by the new lines,
\* each entry keeping its new line
RECURSIVE SplitFilenames(_, _, _)
SplitFilenames(filenames, lastPosition, filenamesVector) ==
    IF find(filenames, <<"\n">>, lastPosition) # InvalidPos
    THEN SplitFilenames(filenames, find(filenames, <<"\n">>, lastPosition) + 1,
                        Append(filenamesVector,
                               substring(filenames, lastPosition,
                                         find(filenames, <<"\n">>, lastPosition) - lastPosition + 1)))
    ELSE IF lastPosition < Len(filenames)
    THEN Append(filenamesVector, substring(filenames, lastPosition, Len(filenames) - lastPosition))
    ELSE filenamesVector

\* case SelectionNotify: the loop that removes the last character while it is a new
\* line or a carriage return.  On an empty string filename[filename.getSize() - 1]
\* reads outside the string, which is undefined: under oob = "value" the read
\* yields some other character and the loop ends, under oob = "fault" the process
\* is terminated or the loop never ends, and the handler does not return
RECURSIVE StripNewlines(_, _)
StripNewlines(filename, oob) ==
    IF Len(filename) = 0 THEN [filename |-> filename, fault |-> (oob = "fault")]
    ELSE IF filename[Len(filename)] \in {"\n", "\r"}
    THEN StripNewlines(substring(filename, 0, Len(filename) - 1), oob)
    ELSE [filename |-> filename, fault |-> FALSE]

\* case SelectionNotify: the body of the loop over filenamesVector
StripFilename(filename, oob) ==
    StripNewlines(IF find(filename, FilePrefix, 0) = 0
                  THEN substring(filename, 7, Len(filename) - 7)
                  ELSE filename, oob)

\* the process ends: none of its objects lives on
Terminated(B) ==
    [B EXCEPT !.win = [v \in DOMAIN B.win |->
                          [B.win[v] EXCEPT !.life = IF @ = "live" THEN "crashed" ELSE @]]]

\* case SelectionNotify: the answer to XConvertSelection.  o.property is what
\* XGetWindowProperty returns for the property the owner wrote: whether it
\* succeeds, whether the type is INCR, and the text
onSelectionNotify(B, w, e, o) ==
    IF e.message_type = "XdndSelection"
    THEN LET filenames == IF o.property.success /\ ~o.property.incr
                          THEN o.property.text ELSE <<>>
             filenamesVector == SplitFilenames(filenames, 0, <<>>)
             stripped == [i \in DOMAIN filenamesVector |->
                             StripFilename(filenamesVector[i], o.oob)]
         IN  IF \E i \in DOMAIN stripped : stripped[i].fault
             THEN Terminated(B)
             ELSE pushEvent(B, w, [SfEvent("FilesDropped") EXCEPT
                                      !.filenames = [i \in DOMAIN stripped |->
                                                        stripped[i].filename]])
    ELSE B

\* case ClientMessage: the window manager protocol messages, then the Xdnd ones
onClientMessage(B, w, e, o) ==
    LET netWmPing == IF B.xsrv.netWmPing # "unset" THEN B.xsrv.netWmPing
                     ELSE IF B.xsrv.ewmh /\ "_NET_WM_PING" \in B.xsrv.atoms
                     THEN "_NET_WM_PING" ELSE "None"
        Bs == [B EXCEPT !.xsrv.netWmPing = netWmPing]
        B1 == IF ~e.filtered /\ e.message_type = "WM_PROTOCOLS"
              THEN IF e.format = 32 /\ e.data0 = "WM_DELETE_WINDOW"
                   THEN pushEvent(Bs, w, SfEvent("Closed"))
                   ELSE IF netWmPing # "None" /\ e.format = 32 /\ e.data0 = netWmPing
                   THEN [Bs EXCEPT !.xsrv.sent = @ \cup {[to |-> RootWindow, window |-> RootWindow,
                                                          message_type |-> e.message_type,
                                                          data0 |-> e.data0]},
                                   !.xsrv.pongs = @ + 1]
                   ELSE Bs
              ELSE B
    IN  onXdndMessage(B1, w, e, o)

\* case KeyPress pushing KeyPressed for every unfiltered event
onKeyPress_AlwaysPushes(B, w, e, o) ==
    LET pressed == SfKeyEvent("KeyPressed", e.keycode)
        B1 == IF e.filtered
              THEN [pushEvent(B, w, pressed) EXCEPT !.isKeyFiltered = @ \cup {e.keycode}]
              ELSE pushEvent(B, w, pressed)
        B2 == IF ~e.filtered /\ e.text
              THEN pushEvent(B1, w, SfEvent("TextEntered"))
              ELSE B1
    IN  updateLastInputTime(B2, w, e.time)

\* case KeyPress
onKeyPress(B, w, e, o) ==
    LET pressed == SfKeyEvent("KeyPressed", e.keycode)
        B1 == IF e.filtered
              THEN [pushEvent(B, w, pressed) EXCEPT !.isKeyFiltered = @ \cup {e.keycode}]
              ELSE IF e.keycode \notin B.isKeyFiltered /\ e.keycode # 0
              THEN pushEvent(B, w, pressed)
              ELSE B
        B2 == IF ~e.filtered /\ e.text
              THEN pushEvent(B1, w, SfEvent("TextEntered"))
              ELSE B1
    IN  updateLastInputTime(B2, w, e.time)

\* case KeyRelease
onKeyRelease(B, w, e, o) == pushEvent(B, w, SfKeyEvent("KeyReleased", e.keycode))

\* case ConfigureNotify pushing Resized whatever the size was
onConfigureNotify_Always(B, w, e, o) ==
    [pushEvent(B, w, [SfEvent("Resized") EXCEPT !.size = e.size])
        EXCEPT !.win[w].m_previousSize = e.size]

\* case ConfigureNotify
onConfigureNotify(B, w, e, o) ==
    IF e.size[1] # B.win[w].m_previousSize[1] \/ e.size[2] # B.win[w].m_previousSize[2]
    THEN [pushEvent(B, w, [SfEvent("Resized") EXCEPT !.size = e.size])
             EXCEPT !.win[w].m_previousSize = e.size]
    ELSE B

\* the switch over button in the cases ButtonPress and ButtonRelease
MouseButton(button) ==
    CASE button = 1 -> "Left"
      [] button = 2 -> "Middle"
      [] button = 3 -> "Right"
      [] button = 8 -> "Extra1"
      [] button = 9 -> "Extra2"

\* case ButtonRelease
onButtonRelease(B, w, e, o) ==
    LET button == e.button IN
    IF button = 1 \/ button = 2 \/ button = 3 \/ button = 8 \/ button = 9
    THEN pushEvent(B, w, [SfEvent("MouseButtonReleased") EXCEPT
                             !.position = e.position, !.button = MouseButton(button)])
    ELSE IF button = 4 \/ button = 5
    THEN pushEvent(B, w, [SfEvent("MouseWheelScrolled") EXCEPT
                             !.wheel = "Vertical", !.delta = IF button = 4 THEN 1 ELSE -1,
                             !.position = e.position])
    ELSE IF button = 6 \/ button = 7
    THEN pushEvent(B, w, [SfEvent("MouseWheelScrolled") EXCEPT
                             !.wheel = "Horizontal", !.delta = IF button = 6 THEN 1 ELSE -1,
                             !.position = e.position])
    ELSE B

\* case ButtonPress treating the wheel buttons as ButtonRelease does
onButtonPress_Wheel(B, w, e, o) ==
    updateLastInputTime(IF e.button \in 4..7
                        THEN onButtonRelease(B, w, e, o)
                        ELSE IF e.button \in {1, 2, 3, 8, 9}
                        THEN pushEvent(B, w, [SfEvent("MouseButtonPressed") EXCEPT
                                                 !.position = e.position,
                                                 !.button = MouseButton(e.button)])
                        ELSE B, w, e.time)

\* case ButtonPress
onButtonPress(B, w, e, o) ==
    LET button == e.button
        B1 == IF button = 1 \/ button = 2 \/ button = 3 \/ button = 8 \/ button = 9
              THEN pushEvent(B, w, [SfEvent("MouseButtonPressed") EXCEPT
                                       !.position = e.position, !.button = MouseButton(button)])
              ELSE B
    IN  updateLastInputTime(B1, w, e.time)

\* case MotionNotify
onMotionNotify(B, w, e, o) == pushEvent(B, w, SfEvent("MouseMoved"))

\* case GenericEvent: raw mouse motion
onGenericEvent(B, w, e, o) ==
    IF e.data0 = "XI_RawMotion" THEN pushEvent(B, w, SfEvent("MouseMovedRaw")) ELSE B

\* case UnmapNotify
onUnmapNotify(B, w, e, o) ==
    IF e.window = B.win[w].m_window
    THEN [B EXCEPT !.win[w].m_windowMapped = FALSE]
    ELSE B

\* onVisibilityNotify taking only a fully visible window for a mapped one
onVisibilityNotify_UnobscuredOnly(B, w, e, o) ==
    IF e.window = B.win[w].m_window /\ e.state = "VisibilityUnobscured"
    THEN [B EXCEPT !.win[w].m_windowMapped = TRUE]
    ELSE B

\* case VisibilityNotify
onVisibilityNotify(B, w, e, o) ==
    IF e.window = B.win[w].m_window /\ e.state # "VisibilityFullyObscured"
    THEN [B EXCEPT !.win[w].m_windowMapped = TRUE]
    ELSE B

\* WindowImplX11::processEvent
processEvent(B, w, e, o) ==
    CASE e.type = "DestroyNotify"    -> onDestroyNotify(B, w, e, o)
      [] e.type = "FocusIn"          -> onFocusIn(B, w, e, o)
      [] e.type = "FocusOut"         -> onFocusOut(B, w, e, o)
      [] e.type = "ClientMessage"    -> onClientMessage(B, w, e, o)
      [] e.type = "SelectionNotify"  -> onSelectionNotify(B, w, e, o)
      [] e.type = "ConfigureNotify"  -> onConfigureNotify(B, w, e, o)
      [] e.type = "ButtonPress"      -> onButtonPress(B, w, e, o)
      [] e.type = "ButtonRelease"    -> onButtonRelease(B, w, e, o)
      [] e.type = "KeyPress"         -> onKeyPress(B, w, e, o)
      [] e.type = "KeyRelease"       -> onKeyRelease(B, w, e, o)
      [] e.type = "MotionNotify"     -> onMotionNotify(B, w, e, o)
      [] e.type = "GenericEvent"     -> onGenericEvent(B, w, e, o)
      [] e.type = "UnmapNotify"      -> onUnmapNotify(B, w, e, o)
      [] e.type = "VisibilityNotify" -> onVisibilityNotify(B, w, e, o)
      [] OTHER                       -> B

----------------------------------------------------------------------------
(* The outcomes of the Xlib calls a handler makes, chosen by the environment *)

\* xrandr, res, crtcInfo: whether XQueryExtension("RANDR"), XRRGetScreenResources and
\* XRRGetCrtcInfo succeed; grabFailures: the number of XGrabPointer trials that fail
\* before one succeeds; attributes: whether XGetWindowAttributes succeeds, and
\* garbage: the map_state left in the XWindowAttributes it did not fill; sendOk:
\* whether XSendEvent succeeds; stateAtoms: whether the atoms _NET_WM_STATE and
\* _NET_WM_STATE_FULLSCREEN exist
Oracle(xrandr, res, crtcInfo, grabFailures) ==
    [xrandr |-> xrandr, res |-> res, crtcInfo |-> crtcInfo, grabFailures |-> grabFailures,
     attributes |-> TRUE, garbage |-> "IsUnmapped", sendOk |-> TRUE, stateAtoms |-> TRUE,
     typeList |-> [success |-> FALSE, hasType |-> FALSE, atoms |-> <<>>],
     property |-> [text |-> <<>>, success |-> FALSE, incr |-> FALSE], oob |-> "value"]

DefaultOracle == Oracle(TRUE, TRUE, TRUE, 0)

\* XRandR present and answering, absent, or failing one of the two queries
XRandROracles == {Oracle(TRUE, TRUE, TRUE, 0), Oracle(FALSE, TRUE, TRUE, 0),
                  Oracle(TRUE, FALSE, TRUE, 0), Oracle(TRUE, TRUE, FALSE, 0)}

\* the number of XGrabPointer trials that fail before one succeeds
GrabOracles == {Oracle(TRUE, TRUE, TRUE, n) : n \in 0..maxTrialsCount}

\* XGetWindowAttributes succeeding, or failing and leaving any map_state behind
AttributeOracles ==
    {DefaultOracle} \cup {[DefaultOracle EXCEPT !.attributes = FALSE, !.garbage = g] : g \in MapStates}

\* the outcomes of grabFocus
GrabFocusOracles == AttributeOracles \cup {[DefaultOracle EXCEPT !.sendOk = FALSE]}

\* the outcomes of switchToFullscreen
FocusOracles == GrabFocusOracles \cup {[DefaultOracle EXCEPT !.stateAtoms = FALSE]}

\* the property XdndTypeList of a drag source: unreadable, without a type, or a
\* list of more than three atoms, with or without one the window accepts
TypeListOracles ==
    {[DefaultOracle EXCEPT !.typeList = [success |-> c[1], hasType |-> c[2], atoms |-> c[3]]] :
        c \in {<<FALSE, FALSE, <<>>>>,
               <<TRUE, FALSE, <<>>>>,
               <<TRUE, TRUE, <<"text/plain", "image/png", "text/html", "text/uri-list">>>>,
               <<TRUE, TRUE, <<"text/plain", "image/png", "text/html", "text/x-moz-url">>>>}}

\* longest text a drag source writes, in pieces
MaxPieces == 4
\* the pieces the texts are made of
Pieces == {FilePrefix, <<"a">>, <<"f">>, <<"\n">>, <<"\r">>}

\* the texts of at most n pieces
RECURSIVE TextsOf(_)
TextsOf(n) ==
    IF n = 0 THEN {<<>>}
    ELSE TextsOf(n - 1) \cup {t \o p : t \in TextsOf(n - 1), p \in Pieces}

\* the property a selection owner wrote: unreadable, of type INCR, or a text; and
\* what a read outside a string yields
PropertyOracles ==
    {[DefaultOracle EXCEPT !.property = [text |-> c[3], success |-> c[1], incr |-> c[2]],
                           !.oob = c[4]] :
        c \in {<<FALSE, FALSE, <<>>, "value">>, <<TRUE, TRUE, <<"a", "\n">>, "value">>}
              \cup {<<TRUE, FALSE, t, u>> : t \in TextsOf(MaxPieces), u \in {"value", "fault"}}}

\* the outcomes that matter to the handler of event e
OraclesFor(e) ==
    CASE e.type = "DestroyNotify" -> XRandROracles
      [] e.type = "FocusIn"       -> GrabOracles
      [] e.type = "ClientMessage" /\ e.message_type = "XdndEnter" -> TypeListOracles
      [] e.type = "SelectionNotify" /\ e.message_type = "XdndSelection" -> PropertyOracles
      [] OTHER                    -> {DefaultOracle}

----------------------------------------------------------------------------
(* The Xlib event queue *)

\* checkEvent letting every ClientMessage through
checkEvent_AnyClientMessage(e, userData) ==
    e.window = userData \/ e.type = "GenericEvent" \/ e.type = "ClientMessage"

\* checkEvent: the predicate processEvents hands to XCheckIfEvent
checkEvent(e, userData) ==
    IF e.window = userData \/ e.type = "GenericEvent"
    THEN TRUE
    ELSE IF e.type = "ClientMessage"
         THEN e.message_type # "WM_PROTOCOLS"
         ELSE FALSE

\* XCheckIfEvent: the position of the first queued event the predicate accepts, 0 if none
XCheckIfEvent(queue, userData) ==
    LET hits == {i \in 1..Len(queue) : checkEvent(queue[i], userData)}
    IN  IF hits = {} THEN 0 ELSE CHOOSE i \in hits : \A j \in hits : i <= j

\* the queue once XCheckIfEvent has removed the event at position i
RemoveAt(queue, i) == SubSeq(queue, 1, i - 1) \o SubSeq(queue, i + 1, Len(queue))

\* IsRepeatedKey without the tolerance of one millisecond
IsRepeatedKey_SameTime(event, nextEvent) ==
    /\ nextEvent.type = "KeyPress"
    /\ nextEvent.keycode = event.keycode
    /\ event.time = nextEvent.time

\* The test of processEvents for a KeyRelease/KeyPress pair made by auto-repeat
IsRepeatedKey(event, nextEvent) ==
    /\ nextEvent.type = "KeyPress"
    /\ nextEvent.keycode = event.keycode
    /\ event.time <= nextEvent.time
    /\ nextEvent.time <= event.time + 1

----------------------------------------------------------------------------
(* Steps of the program write the bundle back and record themselves *)

SetBundle(B) ==
    /\ win' = B.win
    /\ fullscreenWindow' = B.fullscreenWindow
    /\ isKeyFiltered' = B.isKeyFiltered
    /\ xsrv' = B.xsrv

\* the step just taken: the window whose thread took it, the event e it held, the
\* event n it took from the queue, and the inputs of the step
Op(op, w, e, n, arg) == [op |-> op, w |-> w, e |-> e, n |-> n, arg |-> arg]

\* the events the step recorded in op handed to processEvent, in order
ProcessedIn(op) ==
    CASE op.op = "taken_processed"      -> <<op.n>>
      [] op.op = "held_processed"       -> <<op.e>>
      [] op.op = "held_processed_taken" -> <<op.e>>
      [] op.op = "both_processed"       -> <<op.e, op.n>>
      [] op.op = "repeat"               -> <<op.n>>
      [] OTHER                          -> <<>>

\* whether the step recorded in op took an event from the queue
TookEvent(op) ==
    op.op \in {"taken_processed", "taken", "held_processed_taken", "both_processed", "repeat", "discard"}

\* pc: where the thread is; event: the KeyRelease processEvents holds; ret: the call
\* processEvents returns into; visible: the argument of setVisible; waited: whether
\* the loop of setVisible has called processEvents
Thread(pc, event, ret, visible, waited) ==
    [pc |-> pc, event |-> event, ret |-> ret, visible |-> visible, waited |-> waited]
IdleThread == Thread("idle", NoEvent, "idle", FALSE, FALSE)

----------------------------------------------------------------------------
(* WindowImplX11::processEvents.  Each action is one call of XCheckIfEvent *)
(* with the code that runs until the next one.                             *)

\* a caller enters processEvents
processEvents_Call(w) ==
    /\ th[w].pc = "idle"
    /\ win[w].life = "live"
    /\ th' = [th EXCEPT ![w] = Thread("pe_outer", NoEvent, "idle", FALSE, FALSE)]
    /\ lastOp' = Op("processEvents", w, NoEvent, NoEvent, None)
    /\ UNCHANGED <<win, fullscreenWindow, allWindows, isKeyFiltered, xqueue, xsrv, audioStream>>

\* the outer XCheckIfEvent finds no event: processEvents returns to its caller
processEvents_Return(w) ==
    /\ win[w].life = "live"
    /\ th[w].pc = "pe_outer"
    /\ XCheckIfEvent(xqueue, win[w].m_window) = 0
    /\ th' = [th EXCEPT ![w].pc = th[w].ret, ![w].event = NoEvent]
    /\ lastOp' = Op("return", w, NoEvent, NoEvent, None)
    /\ UNCHANGED <<win, fullscreenWindow, allWindows, isKeyFiltered, xqueue, xsrv, audioStream>>

\* the outer XCheckIfEvent takes an event that is no KeyRelease: it is processed
processEvents_Other(w) ==
    LET i == XCheckIfEvent(xqueue, win[w].m_window) IN
    /\ win[w].life = "live"
    /\ th[w].pc = "pe_outer"
    /\ i # 0
    /\ xqueue[i].type # "KeyRelease"
    /\ xqueue' = RemoveAt(xqueue, i)
    /\ \E o \in OraclesFor(xqueue[i]) :
          /\ SetBundle(processEvent(Bundle, w, xqueue[i], o))
          /\ lastOp' = Op("taken_processed", w, NoEvent, xqueue[i], o)
    /\ UNCHANGED <<allWindows, th, audioStream>>

\* the outer XCheckIfEvent takes a KeyRelease: the inner loop is entered
processEvents_KeyRelease(w) ==
    LET i == XCheckIfEvent(xqueue, win[w].m_window) IN
    /\ win[w].life = "live"
    /\ th[w].pc = "pe_outer"
    /\ i # 0
    /\ xqueue[i].type = "KeyRelease"
    /\ xqueue' = RemoveAt(xqueue, i)
    /\ th' = [th EXCEPT ![w].pc = "pe_inner", ![w].event = xqueue[i]]
    /\ lastOp' = Op("taken", w, NoEvent, xqueue[i], None)
    /\ UNCHANGED <<win, fullscreenWindow, allWindows, isKeyFiltered, xsrv, audioStream>>

\* inner loop: no event follows the KeyRelease, which is processed
processEvents_NoNext(w) ==
    /\ win[w].life = "live"
    /\ th[w].pc = "pe_inner"
    /\ XCheckIfEvent(xqueue, win[w].m_window) = 0
    /\ SetBundle(processEvent(Bundle, w, th[w].event, DefaultOracle))
    /\ th' = [th EXCEPT ![w].pc = "pe_outer", ![w].event = NoEvent]
    /\ lastOp' = Op("held_processed", w, th[w].event, NoEvent, DefaultOracle)
    /\ UNCHANGED <<allWindows, xqueue, audioStream>>

\* processEvents_Repeated processing the KeyRelease too when key repeat is enabled
processEvents_Repeated_KeepsRelease(w) ==
    LET i == XCheckIfEvent(xqueue, win[w].m_window) IN
    /\ win[w].life = "live"
    /\ th[w].pc = "pe_inner"
    /\ i # 0
    /\ IsRepeatedKey(th[w].event, xqueue[i])
    /\ xqueue' = RemoveAt(xqueue, i)
    /\ IF win[w].m_keyRepeat
       THEN /\ SetBundle(processEvent(processEvent(Bundle, w, th[w].event, DefaultOracle),
                                      w, xqueue[i], DefaultOracle))
            /\ lastOp' = Op("repeat", w, th[w].event, xqueue[i], DefaultOracle)
       ELSE /\ SetBundle(Bundle)
            /\ lastOp' = Op("discard", w, th[w].event, xqueue[i], DefaultOracle)
    /\ th' = [th EXCEPT ![w].pc = "pe_outer", ![w].event = NoEvent]
    /\ UNCHANGED <<allWindows, audioStream>>

\* inner loop: the next event is the KeyPress of a repeated key
processEvents_Repeated(w) ==
    LET i == XCheckIfEvent(xqueue, win[w].m_window) IN
    /\ win[w].life = "live"
    /\ th[w].pc = "pe_inner"
    /\ i # 0
    /\ IsRepeatedKey(th[w].event, xqueue[i])
    /\ xqueue' = RemoveAt(xqueue, i)
    /\ IF win[w].m_keyRepeat
       THEN \* ignore the KeyRelease event and process the KeyPress event
            /\ SetBundle(processEvent(Bundle, w, xqueue[i], DefaultOracle))
            /\ lastOp' = Op("repeat", w, th[w].event, xqueue[i], DefaultOracle)
       ELSE \* ignore both events
            /\ SetBundle(Bundle)
            /\ lastOp' = Op("discard", w, th[w].event, xqueue[i], DefaultOracle)
    /\ th' = [th EXCEPT ![w].pc = "pe_outer", ![w].event = NoEvent]
    /\ UNCHANGED <<allWindows, audioStream>>

\* inner loop: the next event does not repeat the key: the KeyRelease is
\* processed, and the next event takes its place
processEvents_NotRepeated(w) ==
    LET i == XCheckIfEvent(xqueue, win[w].m_window) IN
    /\ win[w].life = "live"
    /\ th[w].pc = "pe_inner"
    /\ i # 0
    /\ ~IsRepeatedKey(th[w].event, xqueue[i])
    /\ xqueue' = RemoveAt(xqueue, i)
    /\ LET B1 == processEvent(Bundle, w, th[w].event, DefaultOracle) IN
       IF xqueue[i].type = "KeyRelease"
       THEN /\ SetBundle(B1)
            /\ th' = [th EXCEPT ![w].event = xqueue[i]]
            /\ lastOp' = Op("held_processed_taken", w, th[w].event, xqueue[i], DefaultOracle)
       ELSE /\ \E o \in OraclesFor(xqueue[i]) :
                  /\ SetBundle(processEvent(B1, w, xqueue[i], o))
                  /\ lastOp' = Op("both_processed", w, th[w].event, xqueue[i], o)
            /\ th' = [th EXCEPT ![w].pc = "pe_outer", ![w].event = NoEvent]
    /\ UNCHANGED <<allWindows, audioStream>>

\* WindowImplX11::setKeyRepeatEnabled
setKeyRepeatEnabled(w, enabled) ==
    /\ th[w].pc = "idle"
    /\ win[w].life = "live"
    /\ win' = [win EXCEPT ![w].m_keyRepeat = enabled]
    /\ lastOp' = Op("setKeyRepeatEnabled", w, NoEvent, NoEvent, enabled)
    /\ UNCHANGED <<fullscreenWindow, allWindows, isKeyFiltered, th, xqueue, xsrv, audioStream>>

----------------------------------------------------------------------------
(* The X server: the events it queues for the connection *)

Enqueue(e) ==
    /\ xsrv.generated < MaxEvents
    /\ xqueue' = Append(xqueue, e)
    /\ xsrv' = [xsrv EXCEPT !.generated = @ + 1]
    /\ lastOp' = Op("server", None, e, NoEvent, None)
    /\ UNCHANGED <<win, fullscreenWindow, allWindows, isKeyFiltered, th, audioStream>>

\* the server clock advances
ServerTick ==
    /\ xsrv.time < MaxTime
    /\ xsrv' = [xsrv EXCEPT !.time = @ + 1]
    /\ lastOp' = Op("tick", None, NoEvent, NoEvent, None)
    /\ UNCHANGED <<win, fullscreenWindow, allWindows, isKeyFiltered, th, xqueue, audioStream>>

\* a key goes down or up (or auto-repeats) while window w has the keyboard;
\* filtered is what XFilterEvent will answer for the event
ServerKey(w, type, keycode, filtered) ==
    Enqueue(KeyEvent(type, w, keycode, xsrv.time, filtered /\ type = "KeyPress", FALSE))

\* a client message reaches window w
ServerClientMessage(w, message_type, format, data0, filtered) ==
    Enqueue(ClientMessageEvent(w, message_type, format, data0, filtered))

\* an XInput2 raw event; it names no window of the program
ServerGenericEvent(data0) ==
    Enqueue([XEvent("GenericEvent", None) EXCEPT !.data0 = data0])

\* the pointer moves over window w
ServerMotion(w) == Enqueue(XEvent("MotionNotify", w))

----------------------------------------------------------------------------
(* The NetworkAudioStream of the voice-over-IP example *)

\* The object with its two threads.  m_samples is the number of samples received:
\* sample i is the i-th received.  m_mutex is the thread that holds the mutex.
\* audio and receiver are the positions of the thread that calls onGetData and of
\* the one that runs receiveLoop; sampleCount is the local of receiveLoop; network
\* holds the packets the client has sent; sent counts them.  ret and data are what
\* the last call of onGetData returned, called the state of the object when it
\* was called, access the thread that read or wrote m_samples in the last step.
NetworkAudioStream(audio, receiver) ==
    [data |-> <<>>, sent |-> 0, ret |-> "none", audio |-> audio, receiver |-> receiver,
     m_samples |-> 0, m_tempBuffer |-> <<>>, m_offset |-> 0, m_hasFinished |-> FALSE,
     m_mutex |-> "none", sampleCount |-> 0, network |-> <<>>, plays |-> 0,
     called |-> [m_samples |-> 0, m_offset |-> 0, m_hasFinished |-> FALSE],
     access |-> "none"]

\* a program that builds no NetworkAudioStream
NoAudioStream == NetworkAudioStream("none", "none")

----------------------------------------------------------------------------
(* The state after construction *)

\* the kinds of server resource a window creates
ResourceKinds == {"colormap", "iconPixmap", "iconMaskPixmap", "hiddenCursor", "inputContext"}

\* the member fields of a constructed window; kind is "windowed", "fullscreen"
\* or "external".  A member that holds a resource is None or its (nonzero) id;
\* owned counts, by kind, the resources the object has created and not freed
Window(w, kind, keyRepeat, mapped) ==
    [life |-> "live", m_window |-> w, m_isExternal |-> (kind = "external"),
     m_fullscreen |-> (kind = "fullscreen"), m_cursorGrabbed |-> (kind = "fullscreen"),
     m_keyRepeat |-> keyRepeat, m_windowMapped |-> mapped,
     m_oldVideoMode |-> None, m_oldRRCrtc |-> None, m_lastInputTime |-> 0,
     m_events |-> <<>>,
     m_dropSource |-> None, m_acceptedFileType |-> "None",
     m_previousSize |-> <<-1, -1>>,
     m_iconPixmap |-> None, m_iconMaskPixmap |-> None,
     m_hiddenCursor |-> 1, m_inputContext |-> 1,
     owned |-> [k \in ResourceKinds |->
                  IF k \in {"hiddenCursor", "inputContext"} \/ (k = "colormap" /\ kind # "external")
                  THEN 1 ELSE 0]]

\* the server with every window of the program mapped and visible
\* getpid()
Pid == 1
\* the atoms getAtom(name, true) asks for, which exist only once a client has
\* interned them
OptionalAtoms == {"_NET_WM_PING", "_NET_WM_PID"}

\* setProtocols: the atoms it writes to WM_PROTOCOLS.  netWmPing and netWmPid are
\* None unless EWMH is supported and the atom exists
ProtocolAtoms(ewmh, atoms) ==
    LET netWmPing == IF ewmh /\ "_NET_WM_PING" \in atoms THEN "_NET_WM_PING" ELSE "None"
        netWmPid  == IF ewmh /\ "_NET_WM_PID" \in atoms THEN "_NET_WM_PID" ELSE "None"
    IN  <<"WM_DELETE_WINDOW">> \o
        (IF netWmPing # "None" /\ netWmPid # "None" THEN <<netWmPing>> ELSE <<>>)

\* setProtocols advertising _NET_WM_PING whatever the window manager supports
setProtocols_AlwaysPing(B, w) ==
    [B EXCEPT !.xsrv.protocols[B.win[w].m_window] = <<"WM_DELETE_WINDOW", "_NET_WM_PING">>]

\* WindowImplX11::setProtocols
setProtocols(B, w) ==
    LET atoms == ProtocolAtoms(B.xsrv.ewmh, B.xsrv.atoms)
        h     == B.win[w].m_window
    IN  [B EXCEPT !.xsrv.netWmPid[h] = IF Len(atoms) > 1 THEN Pid ELSE @,
                  !.xsrv.protocols[h] = atoms]

\* the window a window manager creates for _NET_SUPPORTING_WM_CHECK, and the one a
\* window manager that has exited left named in the property of the root
WmWindow == RootWindow + 3
StaleWmWindow == RootWindow + 4

\* a conforming window manager, and a server without one
ConformingWm == [atoms |-> TRUE, root |-> WmWindow, child |-> WmWindow]
NoWm == [atoms |-> FALSE, root |-> None, child |-> None]

\* what the server can hold about its window manager: nothing, the atoms alone, a
\* conforming one, or the property of one that has exited, naming a window that is
\* gone or that another client has reused
WmStates ==
    {NoWm, ConformingWm}
    \cup [atoms : {TRUE}, root : {None}, child : {None}]
    \cup [atoms : {TRUE}, root : {StaleWmWindow}, child : {None, WmWindow}]

\* ewmhSupported(): the first call reads the server, every call returns the static
ewmhSupported(B) ==
    IF B.xsrv.checked THEN B
    ELSE LET netSupportingWmCheck == B.xsrv.wm.atoms
             rootWindow == B.xsrv.wm.root
             childWindow == B.xsrv.wm.child
         IN  [B EXCEPT !.xsrv.checked = TRUE,
                       !.xsrv.ewmh = /\ netSupportingWmCheck
                                     /\ rootWindow # None
                                     /\ childWindow # None
                                     /\ rootWindow = childWindow]

\* the server with every window of Windows constructed while every optional atom
\* exists.  netWmPing is the static of processEvent, "unset" until the first
\* WM_PROTOCOLS message; pongs counts the pings sent back to the root window;
\* keyboard is the state of the key a user holds ("repeating" between the
\* KeyRelease and the KeyPress of an auto-repeat pair) and repeats the number of
\* pairs the server has made for it; imFilters is whether the input method of the
\* connection ever filters an event (the built-in one of XMODIFIERS=@im=none
\* never does).  ewmh and checked are the statics of ewmhSupported(), which every
\* constructor calls first: ewmh is the answer of its first call.  wm is what the
\* server holds now: whether the atoms _NET_SUPPORTING_WM_CHECK and _NET_SUPPORTED
\* exist, the window the root names in _NET_SUPPORTING_WM_CHECK and the window that
\* one names (None for a property that is missing or is no single XA_WINDOW)
Server(ewmh, focus, primaryCrtc) ==
    [time |-> 0, generated |-> 0, ewmh |-> ewmh,
     mapped |-> [w \in Windows |-> TRUE],
     visibility |-> [w \in Windows |-> "VisibilityUnobscured"],
     mapRequest |-> [w \in Windows |-> <<>>],
     ancestorsMapped |-> [w \in Windows |-> TRUE],
     focus |-> focus, stackTop |-> None, pointerGrab |-> None,
     wmHints |-> [w \in Windows |-> "none"],
     cursor |-> [w \in Windows |-> "m_lastCursor"],
     bypassCompositor |-> [w \in Windows |-> FALSE],
     crtcMode |-> [c \in Crtcs |-> 1], primaryCrtc |-> primaryCrtc,
     destroyed |-> [w \in Windows |-> FALSE],
     sent |-> {},
     destroyRequests |-> {},
     xim |-> TRUE,
     xdndSent |-> <<>>,
     conversions |-> {},
     answered |-> {},
     atoms |-> OptionalAtoms,
     protocols |-> [w \in Windows |-> ProtocolAtoms(ewmh, OptionalAtoms)],
     netWmPid |-> [w \in Windows |-> IF ewmh THEN Pid ELSE None],
     netWmPing |-> "unset",
     pongs |-> 0,
     keyboard |-> "up",
     repeats |-> 0,
     imFilters |-> TRUE,
     checked |-> TRUE,
     wm |-> IF ewmh THEN ConformingWm ELSE NoWm,
     overrideRedirect |-> [w \in Windows |-> FALSE]]

----------------------------------------------------------------------------
(* The event pump: two windows created by SFML poll the shared queue while *)
(* the server sends key events, client messages and raw input events.      *)

\* the windows are constructed and shown; the application has hidden the mouse
\* cursor of window 1 and set its key repeat to keyRepeat
InitPump(keyRepeat, ewmh) ==
    /\ win = [w \in Windows |-> Window(w, "windowed", IF w = 1 THEN keyRepeat ELSE TRUE, TRUE)]
    /\ fullscreenWindow = None
    /\ allWindows = <<1, 2>>
    /\ isKeyFiltered = {}
    /\ th = [w \in Windows |-> IdleThread]
    /\ xqueue = <<>>
    /\ xsrv = [Server(ewmh, 1, 1) EXCEPT !.cursor[1] = "m_hiddenCursor"]
    /\ lastOp = Op("init", None, NoEvent, NoEvent, None)
    /\ audioStream = NoAudioStream

InitKeys == \E r \in BOOLEAN : InitPump(r, TRUE)

InitMessages == \E ewmh \in BOOLEAN : InitPump(TRUE, ewmh)

ProcessEventsStep(w) ==
    \/ processEvents_Call(w)
    \/ processEvents_Return(w)
    \/ processEvents_Other(w)
    \/ processEvents_KeyRelease(w)
    \/ processEvents_NoNext(w)
    \/ processEvents_Repeated(w)
    \/ processEvents_NotRepeated(w)

\* the keyboard: key events and pointer motion for window 1, which polls with
\* either setting of key repeat, while window 2 receives key presses and polls too
NextKeys ==
    \/ \E w \in Windows : ProcessEventsStep(w)
    \/ \E b \in BOOLEAN : setKeyRepeatEnabled(1, b)
    \/ ServerTick
    \/ \E t \in {"KeyPress", "KeyRelease"}, k \in Keycodes, f \in BOOLEAN : ServerKey(1, t, k, f)
    \/ ServerKey(2, "KeyPress", 1, FALSE)
    \/ ServerMotion(1)

SpecKeys == InitKeys /\ [][NextKeys]_vars

\* the messages the window manager and the input method send to a window
ClientMessages(w) ==
    {ClientMessageEvent(w, "WM_PROTOCOLS", 32, "WM_DELETE_WINDOW", f) : f \in BOOLEAN}
    \cup {ClientMessageEvent(w, "WM_PROTOCOLS", 8, "WM_DELETE_WINDOW", FALSE),
          ClientMessageEvent(w, "WM_PROTOCOLS", 32, "_NET_WM_PING", FALSE),
          ClientMessageEvent(w, "XIM", 32, "WM_DELETE_WINDOW", FALSE)}

\* the window manager and the input method: client messages and raw input
NextMessages ==
    \/ \E w \in Windows : ProcessEventsStep(w)
    \/ \E w \in Windows : \E m \in ClientMessages(w) :
          ServerClientMessage(w, m.message_type, m.format, m.data0, m.filtered)
    \/ ServerGenericEvent("XI_RawMotion")
    \/ \E t \in {"KeyPress", "KeyRelease"} : ServerKey(1, t, 1, FALSE)

SpecMessages == InitMessages /\ [][NextMessages]_vars

----------------------------------------------------------------------------
(* Properties of the event pump *)

\* the queued events addressed to window w, in order ("this window's event queue")
OwnQueue(w) == SelectSeq(xqueue, LAMBDA e : e.window = w)

\* a KeyRelease at time t followed by a KeyPress of the same key at t or t + 1
AutoRepeatPair(release, press) ==
    /\ release.type = "KeyRelease"
    /\ press.type = "KeyPress"
    /\ press.keycode = release.keycode
    /\ press.time \in {release.time, release.time + 1}

\* processEvents of w holds a KeyRelease whose successor in w's queue completes
\* an auto-repeat pair, and the step is w's
OnRepeatedKey(w) ==
    /\ th[w].pc = "pe_inner"
    /\ OwnQueue(w) # <<>>
    /\ AutoRepeatPair(th[w].event, Head(OwnQueue(w)))
    /\ th'[w] # th[w]

\* the sf::Events a step appended to w's queue
Pushed(w) == SubSeq(win'[w].m_events, Len(win[w].m_events) + 1, Len(win'[w].m_events))

\* C1: with key repeat disabled, a KeyRelease immediately followed in the window's
\* queue by a KeyPress of the same keycode stamped t or t+1 is discarded together
\* with that KeyPress: both leave the queue and no sf::Event is pushed for them.
C1_RepeatDisabledDiscardsBoth ==
    [][\A w \in Windows :
          (OnRepeatedKey(w) /\ ~win[w].m_keyRepeat)
          => /\ win'[w].m_events = win[w].m_events
             /\ OwnQueue(w)' = Tail(OwnQueue(w))
             /\ th'[w].pc = "pe_outer"
             /\ isKeyFiltered' = isKeyFiltered]_vars

\* a pair stamped t, t+1 has been discarded while an event of the other window,
\* queued between the two, is still waiting
C1_Witness ==
    /\ lastOp.op = "discard"
    /\ ~win[lastOp.w].m_keyRepeat
    /\ lastOp.n.time = lastOp.e.time + 1
    /\ win[lastOp.w].m_events = <<>>
    /\ \E i \in DOMAIN xqueue : xqueue[i].window # lastOp.w

\* C2: with key repeat enabled, the KeyRelease of such a pair is ignored and the
\* KeyPress is processed: the step pushes no KeyReleased, has the effect of
\* processEvent on the KeyPress alone, and pushes exactly one KeyPressed when the
\* key is one the input method leaves alone.
C2_RepeatEnabledKeepsPress ==
    [][\A w \in Windows :
          (OnRepeatedKey(w) /\ win[w].m_keyRepeat)
          => LET press == Head(OwnQueue(w)) IN
             /\ \A i \in DOMAIN Pushed(w) : Pushed(w)[i].type # "KeyReleased"
             /\ win' = onKeyPress(Bundle, w, press, DefaultOracle).win
             /\ isKeyFiltered' = onKeyPress(Bundle, w, press, DefaultOracle).isKeyFiltered
             /\ (press.keycode # 0 /\ press.keycode \notin isKeyFiltered)
                   => Pushed(w) = <<SfKeyEvent("KeyPressed", press.keycode)>>
             /\ OwnQueue(w)' = Tail(OwnQueue(w))
             /\ th'[w].pc = "pe_outer"]_vars

\* a held key: press, two auto-repeat pairs, nothing released yet
C2_Witness ==
    /\ lastOp.op = "repeat"
    /\ win[lastOp.w].m_keyRepeat
    /\ Len(win[lastOp.w].m_events) >= 2
    /\ \A i \in DOMAIN win[lastOp.w].m_events :
          win[lastOp.w].m_events[i] = SfKeyEvent("KeyPressed", lastOp.n.keycode)


\* the number of Closed events in a sequence of sf::Events
ClosedCount(events) == Cardinality({i \in DOMAIN events : events[i].type = "Closed"})

\* a close request: WM_PROTOCOLS, format 32, WM_DELETE_WINDOW first, not filtered
IsCloseRequest(e) ==
    /\ e.type = "ClientMessage"
    /\ e.message_type = "WM_PROTOCOLS"
    /\ e.format = 32
    /\ e.data0 = "WM_DELETE_WINDOW"
    /\ ~e.filtered

\* the number of close requests among the events a step processed
CloseRequestsIn(op) ==
    Cardinality({i \in DOMAIN ProcessedIn(op) : IsCloseRequest(ProcessedIn(op)[i])})

\* C5: every close request that is processed pushes exactly one Closed event, no
\* other X event pushes one, and the step that processes a close request neither
\* destroys the native window nor runs cleanup (the hidden cursor stays hidden, the
\* fullscreen window and the display configuration stay as they are).
C5_ClosedOnlyOnCloseRequest ==
    [][\A w \in Windows :
          LET closed == ClosedCount(win'[w].m_events) - ClosedCount(win[w].m_events) IN
          /\ closed = IF lastOp'.w = w THEN CloseRequestsIn(lastOp') ELSE 0
          /\ closed > 0 => /\ xsrv'.destroyed = xsrv.destroyed
                           /\ xsrv'.cursor = xsrv.cursor
                           /\ xsrv'.crtcMode = xsrv.crtcMode
                           /\ fullscreenWindow' = fullscreenWindow
                           /\ win'[w].life = "live"]_vars

\* window 1, whose cursor is hidden, has processed a close request
C5_Witness ==
    /\ lastOp.w = 1
    /\ CloseRequestsIn(lastOp) = 1
    /\ ClosedCount(win[1].m_events) = 1
    /\ xsrv.cursor[1] = "m_hiddenCursor"

\* C6: a step of processEvents never takes a WM_PROTOCOLS ClientMessage addressed
\* to another window, and a Closed event is pushed to a window only by its own
\* processEvents processing a close request addressed to it.
C6_ProtocolsStayWithTheirWindow ==
    [][/\ (TookEvent(lastOp') /\ lastOp'.n.type = "ClientMessage"
             /\ lastOp'.n.message_type = "WM_PROTOCOLS")
          => lastOp'.n.window = win[lastOp'.w].m_window
       /\ \A w \in Windows :
             ClosedCount(win'[w].m_events) > ClosedCount(win[w].m_events)
             => /\ lastOp'.w = w
                /\ \E i \in DOMAIN ProcessedIn(lastOp') :
                      /\ IsCloseRequest(ProcessedIn(lastOp')[i])
                      /\ ProcessedIn(lastOp')[i].window = win[w].m_window]_vars

\* window 2 polled first and left the close request of window 1 in the queue, then
\* window 1 took it: Closed is in window 1 only
C6_Witness ==
    /\ lastOp.w = 1
    /\ CloseRequestsIn(lastOp) = 1
    /\ ClosedCount(win[1].m_events) = 1
    /\ ClosedCount(win[2].m_events) = 0
    /\ Len(win[2].m_events) > 0

----------------------------------------------------------------------------
(* Focus: grabFocus and switchToFullscreen *)

\* the map_state the server holds for window w
MapState(xs, w) ==
    IF ~xs.mapped[w] THEN "IsUnmapped"
    ELSE IF xs.ancestorsMapped[w] THEN "IsViewable"
    ELSE "IsUnviewable"

\* the map_state the caller finds in the XWindowAttributes after XGetWindowAttributes
XGetWindowAttributes(B, w, o) == IF o.attributes THEN MapState(B.xsrv, w) ELSE o.garbage

\* XSendEvent to the root window
XSendEvent(B, w, message_type, data0, o) ==
    IF o.sendOk
    THEN [B EXCEPT !.xsrv.sent = @ \cup {[to |-> RootWindow, window |-> B.win[w].m_window,
                                          message_type |-> message_type, data0 |-> data0]}]
    ELSE B

\* XRaiseWindow followed by XSetInputFocus, which the server refuses (BadMatch)
\* for a window that is not viewable
RaiseAndSetInputFocus(B, w) ==
    [B EXCEPT !.xsrv.stackTop = B.win[w].m_window,
              !.xsrv.focus = IF MapState(B.xsrv, w) = "IsViewable" THEN B.win[w].m_window ELSE @]

\* grabFocus sending _NET_ACTIVE_WINDOW whatever ewmhSupported() answers
grabFocus_AlwaysMessage(B, w, o) ==
    IF XGetWindowAttributes(B, w, o) = "IsUnmapped" THEN B
    ELSE XSendEvent(B, w, "_NET_ACTIVE_WINDOW", "application", o)

\* WindowImplX11::grabFocus
grabFocus(B, w, o) ==
    IF XGetWindowAttributes(B, w, o) = "IsUnmapped" THEN B
    ELSE IF B.xsrv.ewmh
    THEN XSendEvent(B, w, "_NET_ACTIVE_WINDOW", "application", o)
    ELSE RaiseAndSetInputFocus(B, w)

\* WindowImplX11::switchToFullscreen
switchToFullscreen(B, w, o) ==
    LET B1 == grabFocus(B, w, o) IN
    IF B1.xsrv.ewmh
    THEN LET B2 == [B1 EXCEPT !.xsrv.bypassCompositor[w] = TRUE] IN
         IF ~o.stateAtoms THEN B2
         ELSE XSendEvent(B2, w, "_NET_WM_STATE", "_NET_WM_STATE_FULLSCREEN", o)
    ELSE B1

\* WindowImplX11::hasFocus
hasFocus(B, w) == B.win[w].m_window = B.xsrv.focus

----------------------------------------------------------------------------
(* WindowImplX11::setVisible.  The call sends its request, then polls          *)
(* processEvents until the mapped flag has the value it waits for.           *)

\* XMapWindow / XUnmapWindow: the request joins those the server has not handled yet
XMapRequest(B, w, request) == [B EXCEPT !.xsrv.mapRequest[w] = Append(@, request)]

\* setVisible up to its loop
setVisible_Call(w, visible) ==
    /\ th[w].pc = "idle"
    /\ win[w].life = "live"
    /\ Len(xsrv.mapRequest[w]) < MaxRequests
    /\ IF visible
       THEN \E o \in IF win[w].m_fullscreen THEN FocusOracles ELSE {DefaultOracle} :
               LET B1 == XMapRequest(Bundle, w, "map") IN
               SetBundle(IF win[w].m_fullscreen THEN switchToFullscreen(B1, w, o) ELSE B1)
       ELSE SetBundle(XMapRequest(Bundle, w, "unmap"))
    /\ th' = [th EXCEPT ![w] = Thread("sv_loop", NoEvent, "sv_loop", visible, FALSE)]
    /\ lastOp' = Op("setVisible", w, NoEvent, NoEvent, visible)
    /\ UNCHANGED <<allWindows, xqueue, audioStream>>

\* setVisible_Waiting as it would be if both loops waited for the flag to be set
setVisible_Waiting_ForMapped(w) ==
    /\ ~win[w].m_isExternal
    /\ ~win[w].m_windowMapped

\* the condition of the loop setVisible(visible) is in
setVisible_Waiting(w) ==
    /\ ~win[w].m_isExternal
    /\ IF th[w].visible THEN ~win[w].m_windowMapped ELSE win[w].m_windowMapped

\* the loop condition holds: processEvents is called
setVisible_Wait(w) ==
    /\ th[w].pc = "sv_loop"
    /\ setVisible_Waiting(w)
    /\ th' = [th EXCEPT ![w].pc = "pe_outer", ![w].waited = TRUE]
    /\ lastOp' = Op("setVisible_wait", w, NoEvent, NoEvent, th[w].visible)
    /\ UNCHANGED <<win, fullscreenWindow, allWindows, isKeyFiltered, xqueue, xsrv, audioStream>>

\* the loop condition fails: setVisible returns
setVisible_Return(w) ==
    /\ th[w].pc = "sv_loop"
    /\ ~setVisible_Waiting(w)
    /\ th' = [th EXCEPT ![w] = IdleThread]
    /\ lastOp' = Op("setVisible_return", w, NoEvent, NoEvent,
                    [visible |-> th[w].visible, waited |-> th[w].waited])
    /\ UNCHANGED <<win, fullscreenWindow, allWindows, isKeyFiltered, xqueue, xsrv, audioStream>>

----------------------------------------------------------------------------
(* The X server: mapping, unmapping and visibility *)

\* the server (with the window manager) handles the oldest map or unmap request
\* for window w: mapping an unmapped window makes it viewable and reports its
\* visibility, unmapping a mapped window reports UnmapNotify
ServerMapRequest(w) ==
    /\ xsrv.mapRequest[w] # <<>>
    /\ Len(OwnQueue(w)) < MaxQueued
    /\ LET request == Head(xsrv.mapRequest[w])
           xs == [xsrv EXCEPT !.mapRequest[w] = Tail(@)]
       IN  \/ /\ request = "map" /\ ~xsrv.mapped[w]
              /\ \E s \in VisibilityStates :
                    /\ xsrv' = [xs EXCEPT !.mapped[w] = TRUE, !.visibility[w] = s]
                    /\ xqueue' = Append(xqueue, VisibilityEvent(w, s))
           \/ /\ request = "unmap" /\ xsrv.mapped[w]
              /\ xsrv' = [xs EXCEPT !.mapped[w] = FALSE]
              /\ xqueue' = Append(xqueue, XEvent("UnmapNotify", w))
           \/ /\ (request = "map") = xsrv.mapped[w]
              /\ xsrv' = xs
              /\ xqueue' = xqueue
    /\ lastOp' = Op("map_request", w, NoEvent, NoEvent, None)
    /\ UNCHANGED <<win, fullscreenWindow, allWindows, isKeyFiltered, th, audioStream>>

\* other windows move over or away from the mapped window w
ServerVisibility(w, s) ==
    /\ xsrv.mapped[w]
    /\ xsrv.visibility[w] # s
    /\ xsrv.generated < MaxEvents
    /\ xsrv' = [xsrv EXCEPT !.visibility[w] = s, !.generated = @ + 1]
    /\ xqueue' = Append(xqueue, VisibilityEvent(w, s))
    /\ lastOp' = Op("server", None, VisibilityEvent(w, s), NoEvent, None)
    /\ UNCHANGED <<win, fullscreenWindow, allWindows, isKeyFiltered, th, audioStream>>

\* the mapped window w, fully obscured so far, comes into view
ServerReveal(w) ==
    /\ xsrv.mapped[w]
    /\ xsrv.visibility[w] = "VisibilityFullyObscured"
    /\ Len(OwnQueue(w)) < MaxQueued
    /\ \E s \in VisibilityStates \ {"VisibilityFullyObscured"} :
          /\ xsrv' = [xsrv EXCEPT !.visibility[w] = s]
          /\ xqueue' = Append(xqueue, VisibilityEvent(w, s))
          /\ lastOp' = Op("server", None, VisibilityEvent(w, s), NoEvent, None)
    /\ UNCHANGED <<win, fullscreenWindow, allWindows, isKeyFiltered, th, audioStream>>

\* the window manager iconifies window w
ServerIconify(w) ==
    /\ xsrv.mapped[w]
    /\ xsrv.generated < MaxEvents
    /\ Len(OwnQueue(w)) < MaxQueued
    /\ xsrv' = [xsrv EXCEPT !.mapped[w] = FALSE, !.generated = @ + 1]
    /\ xqueue' = Append(xqueue, XEvent("UnmapNotify", w))
    /\ lastOp' = Op("server", None, XEvent("UnmapNotify", w), NoEvent, None)
    /\ UNCHANGED <<win, fullscreenWindow, allWindows, isKeyFiltered, th, audioStream>>

----------------------------------------------------------------------------------------------------------------------------------------
(* Showing and hiding: the application shows, hides and polls window 1,     *)
(* which is created by SFML or wraps an external handle.                    *)

\* a window created by SFML has been shown by its constructor; an external
\* window is mapped already or its map request is still to be handled
InitVisibility ==
    /\ fullscreenWindow = None
    /\ allWindows = <<1, 2>>
    /\ isKeyFiltered = {}
    /\ th = [w \in Windows |-> IdleThread]
    /\ xqueue = <<>>
    /\ lastOp = Op("init", None, NoEvent, NoEvent, None)
    /\ audioStream = NoAudioStream
    /\ \/ /\ win = [w \in Windows |-> Window(w, "windowed", TRUE, TRUE)]
          /\ xsrv = Server(TRUE, 1, 1)
       \/ /\ win = [w \in Windows |->
                       Window(w, IF w = 1 THEN "external" ELSE "windowed", TRUE, w # 1)]
          /\ \E mapped \in BOOLEAN :
                xsrv = [Server(TRUE, 2, 1) EXCEPT !.mapped[1] = mapped,
                           !.mapRequest[1] = IF mapped THEN <<>> ELSE <<"map">>]

SetVisibleStep(w) ==
    \/ \E visible \in BOOLEAN : setVisible_Call(w, visible)
    \/ setVisible_Wait(w)
    \/ setVisible_Return(w)

\* the program, and the server answering its requests and sending key events
\* and changes of visibility
ShowHideStep ==
    \/ ProcessEventsStep(1)
    \/ SetVisibleStep(1)
    \/ ServerMapRequest(1)
    \/ \E s \in VisibilityStates : ServerVisibility(1, s)
    \/ \E t \in {"KeyPress", "KeyRelease"} : ServerKey(1, t, 1, FALSE)

\* with a window manager that may iconify the window at any time
NextVisibility ==
    \/ ShowHideStep
    \/ ServerIconify(1)

SpecVisibility == InitVisibility /\ [][NextVisibility]_vars

\* with a server that keeps to what the code takes for granted (comment at
\* WindowImplX11.cpp:2172): nobody but the program unmaps the window, and a mapped
\* window does not stay fully obscured for ever
NextShown ==
    \/ ShowHideStep
    \/ ServerReveal(1)

\* the window is one created by SFML
InitShown == InitVisibility /\ ~win[1].m_isExternal

\* a thread inside a call keeps running, and the server answers
SpecShown ==
    /\ InitShown
    /\ [][NextShown]_vars
    /\ WF_vars(th[1].pc # "idle" /\ (ProcessEventsStep(1) \/ SetVisibleStep(1)))
    /\ WF_vars(ServerMapRequest(1))
    /\ WF_vars(ServerReveal(1))

----------------------------------------------------------------------------
(* Properties of setVisible *)

\* the step recorded in op handed processEvent an event of the given kind for window w
Saw(op, w, mapping) ==
    \E i \in 1..Len(ProcessedIn(op)) :
        LET e == ProcessedIn(op)[i] IN
        /\ e.window = w
        /\ IF mapping
           THEN e.type = "VisibilityNotify" /\ e.state # "VisibilityFullyObscured"
           ELSE e.type = "UnmapNotify"

\* setVisible(v) has just returned on window w
Returned(w, v) ==
    lastOp.op = "setVisible_return" /\ lastOp.w = w /\ lastOp.arg.visible = v

\* C3: when setVisible(v) returns on a window created by SFML the mapped flag equals
\* v; the flag is set only by a VisibilityNotify for the window that is not fully
\* obscured and cleared only by an UnmapNotify for it; while the flag differs from v
\* the call goes on calling processEvents, and on an external window it returns
\* without calling it.
C3_SetVisibleWaitsForFlag ==
    /\ [](\A w \in Windows : \A v \in BOOLEAN :
             Returned(w, v) /\ ~win[w].m_isExternal => win[w].m_windowMapped = v)
    /\ [][\A w \in Windows :
             /\ win'[w].m_windowMapped # win[w].m_windowMapped =>
                   lastOp'.w = w /\ Saw(lastOp', w, win'[w].m_windowMapped)
             /\ th[w].pc = "sv_loop" /\ th'[w] # th[w] =>
                   IF win[w].m_isExternal \/ win[w].m_windowMapped = th[w].visible
                   THEN th'[w].pc = "idle"
                   ELSE th'[w].pc = "pe_outer"]_vars

\* setVisible(false) has returned on a window created by SFML after polling
C3_Witness == Returned(1, FALSE) /\ ~win[1].m_isExternal /\ lastOp.arg.waited

----------------------------------------------------------------------------
(* WindowImplX11::requestFocus *)

\* the loop over allWindows: whether some registered window has the input focus
sfmlWindowFocused(B, windows) ==
    \E i \in 1..Len(windows) : hasFocus(B, windows[i])

\* XSetWMHints with the urgency flag added to the window's hints
SetUrgencyHint(B, w) == [B EXCEPT !.xsrv.wmHints[w] = "urgent"]

\* requestFocus grabbing the focus of any viewable window
requestFocus_FromAnyApplication(B, w, windows, o, og) ==
    IF ~o.attributes THEN B
    ELSE IF MapState(B.xsrv, w) = "IsViewable"
    THEN grabFocus(B, w, og)
    ELSE SetUrgencyHint(B, w)

\* WindowImplX11::requestFocus; o holds the outcome of its own XGetWindowAttributes,
\* og the outcomes of the calls grabFocus makes
requestFocus(B, w, windows, o, og) ==
    IF ~o.attributes THEN B
    ELSE IF sfmlWindowFocused(B, windows) /\ MapState(B.xsrv, w) = "IsViewable"
    THEN grabFocus(B, w, og)
    ELSE SetUrgencyHint(B, w)

\* the events the server queues when the input focus moves: the window of the
\* program that had it receives FocusOut, the one that gets it FocusIn
FocusEvents(old, new) ==
    IF old = new THEN <<>>
    ELSE (IF old \in Windows THEN <<XEvent("FocusOut", old)>> ELSE <<>>)
         \o (IF new \in Windows THEN <<XEvent("FocusIn", new)>> ELSE <<>>)

\* the application calls requestFocus on window w
RequestFocus(w) ==
    /\ th[w].pc = "idle"
    /\ win[w].life = "live"
    /\ \E o \in {DefaultOracle, [DefaultOracle EXCEPT !.attributes = FALSE]} :
       \E og \in GrabFocusOracles :
          /\ SetBundle(requestFocus(Bundle, w, allWindows, o, og))
          /\ lastOp' = Op("requestFocus", w, NoEvent, NoEvent, [o |-> o, og |-> og])
    /\ xqueue' = xqueue \o FocusEvents(xsrv.focus, xsrv'.focus)
    /\ UNCHANGED <<allWindows, th, audioStream>>

\* the input focus moves to window f of the program, or (None) to another application
ServerFocus(f) ==
    /\ xsrv.generated < MaxEvents
    /\ f # xsrv.focus
    /\ f \in Windows => MapState(xsrv, f) = "IsViewable"
    /\ xsrv' = [xsrv EXCEPT !.focus = f, !.generated = @ + 1]
    /\ xqueue' = xqueue \o FocusEvents(xsrv.focus, f)
    /\ lastOp' = Op("server", None, XEvent("FocusIn", f), NoEvent, None)
    /\ UNCHANGED <<win, fullscreenWindow, allWindows, isKeyFiltered, th, audioStream>>

----------------------------------------------------------------------------
(* Focus requests: two windows created by SFML ask for the focus while the  *)
(* focus moves between them and other applications.                         *)

\* window 2 is shown; window 1 is shown, hidden by setVisible(false), or on
\* another desktop; the focus is with a shown window or with another application
InitFocus ==
    /\ fullscreenWindow = None
    /\ allWindows = <<1, 2>>
    /\ isKeyFiltered = {}
    /\ th = [w \in Windows |-> IdleThread]
    /\ xqueue = <<>>
    /\ lastOp = Op("init", None, NoEvent, NoEvent, None)
    /\ audioStream = NoAudioStream
    /\ \E state \in MapStates :
          /\ win = [w \in Windows |-> Window(w, "windowed", TRUE, w # 1 \/ state # "IsUnmapped")]
          /\ \E ewmh \in BOOLEAN : \E focus \in {None} \cup Windows :
                /\ focus = 1 => state = "IsViewable"
                /\ xsrv = [Server(ewmh, focus, 1) EXCEPT
                              !.mapped[1] = (state # "IsUnmapped"),
                              !.ancestorsMapped[1] = (state # "IsUnviewable")]

NextFocus ==
    \/ RequestFocus(1)
    \/ \E f \in {None} \cup Windows : ServerFocus(f)
    \/ ProcessEventsStep(1)
    \/ \E t \in {"KeyPress", "KeyRelease"} : ServerKey(1, t, 1, FALSE)

SpecFocus == InitFocus /\ [][NextFocus]_vars

----------------------------------------------------------------------------
(* Properties of requestFocus *)

\* some window registered in allWindows has the input focus
FocusWithSfmlWindow ==
    \E i \in 1..Len(allWindows) : win[allWindows[i]].m_window = xsrv.focus

\* the _NET_ACTIVE_WINDOW message grabFocus sends to the root window for window w
ActivationRequest(w) ==
    [to |-> RootWindow, window |-> win[w].m_window,
     message_type |-> "_NET_ACTIVE_WINDOW", data0 |-> "application"]

\* C7: requestFocus takes the focus for its window (grabFocus: the activation
\* request with EWMH, raising the window and setting the input focus without) only
\* when a window registered in allWindows has the input focus and this window is
\* viewable; in every other case it sets the urgency hint and nothing else, and
\* when the window attributes cannot be read it changes nothing.
C7_FocusStolenOnlyAmongSfmlWindows ==
    [][\A w \in Windows :
          lastOp'.op = "requestFocus" /\ lastOp'.w = w =>
             LET readable == lastOp'.arg.o.attributes
                 og == lastOp'.arg.og
                 steal == readable /\ FocusWithSfmlWindow /\ MapState(xsrv, w) = "IsViewable"
             IN  /\ UNCHANGED <<win, fullscreenWindow, allWindows, isKeyFiltered, th, audioStream>>
                 /\ xqueue' = xqueue \o FocusEvents(xsrv.focus, xsrv'.focus)
                 /\ ~readable => xsrv' = xsrv
                 /\ readable /\ ~steal => xsrv' = [xsrv EXCEPT !.wmHints[w] = "urgent"]
                 /\ steal =>
                       /\ xsrv'.wmHints = xsrv.wmHints
                       /\ IF xsrv.ewmh
                          THEN /\ xsrv'.focus = xsrv.focus
                               /\ og.attributes /\ og.sendOk => ActivationRequest(w) \in xsrv'.sent
                          ELSE og.attributes => xsrv'.focus = w /\ xsrv'.stackTop = w
                 /\ xsrv'.focus # xsrv.focus \/ xsrv'.sent # xsrv.sent => steal]_vars

\* requestFocus has taken the focus from the other window of the program, which
\* has not yet processed its FocusOut
C7_Witness ==
    /\ lastOp.op = "requestFocus"
    /\ lastOp.w = 1
    /\ ~xsrv.ewmh
    /\ xsrv.focus = 1
    /\ xsrv.stackTop = 1
    /\ \E i \in 1..Len(xqueue) : xqueue[i].type = "FocusIn" /\ xqueue[i].window = 2

----------------------------------------------------------------------------
(* WindowImplX11::setVideoMode *)

\* what setVideoMode reads from outside the object: VideoMode::getDesktopMode(),
\* whether checkXRandR, XRRGetScreenResources, XRRGetOutputInfo and XRRGetCrtcInfo
\* succeed, whether the primary output is connected, and crtcInfo->rotation
ModeSwitchInput(desktop, failure, rotation) ==
    [desktop |-> desktop, xrandr |-> failure # "xrandr", res |-> failure # "res",
     outputInfo |-> failure # "outputInfo", connected |-> failure # "disconnected",
     crtcInfo |-> failure # "crtcInfo", rotation |-> rotation]

\* every call succeeding on an unrotated desktop of 3 by 3
DefaultModeSwitchInput == ModeSwitchInput(<<3, 3>>, "none", "RR_Rotate_0")

\* every call succeeding, with any rotation, or one of them failing
ModeSwitchInputs ==
    {ModeSwitchInput(d, "none", r) : d \in {<<3, 3>>, <<2, 1>>}, r \in Rotations}
    \cup {ModeSwitchInput(<<3, 3>>, f, "RR_Rotate_0") :
             f \in {"xrandr", "res", "outputInfo", "disconnected", "crtcInfo"}}

\* whether res->modes[i] has the requested size once the loop has swapped its width
\* and height for a CRTC rotated by 90 or 270 degrees
ModeMatches(i, mode, rotation) ==
    LET swapped == rotation \in {"RR_Rotate_90", "RR_Rotate_270"}
        width == IF swapped THEN ResModes[i].height ELSE ResModes[i].width
        height == IF swapped THEN ResModes[i].width ELSE ResModes[i].height
    IN  width = mode[1] /\ height = mode[2]

\* the loop over res->modes: the id of the first matching mode, None if none matches
FindMode(mode, rotation) ==
    LET hits == {i \in 1..Len(ResModes) : ModeMatches(i, mode, rotation)}
    IN  IF hits = {} THEN None
        ELSE ResModes[CHOOSE i \in hits : \A j \in hits : i <= j].id

\* setVideoMode switching although the primary output is disconnected
setVideoMode_IgnoresDisconnected(B, w, mode, in) ==
    LET crtc == B.xsrv.primaryCrtc
        xRandMode == FindMode(mode, in.rotation)
    IN  IF mode = in.desktop THEN B
        ELSE IF ~in.xrandr THEN B
        ELSE IF ~in.res THEN B
        ELSE IF ~in.outputInfo THEN B
        ELSE IF ~in.crtcInfo THEN B
        ELSE IF xRandMode = None THEN B
        ELSE [XRRSetCrtcConfig(B, crtc, xRandMode) EXCEPT
                 !.win[w].m_oldVideoMode = B.xsrv.crtcMode[crtc],
                 !.win[w].m_oldRRCrtc = crtc,
                 !.fullscreenWindow = w]

\* WindowImplX11::setVideoMode
setVideoMode(B, w, mode, in) ==
    LET crtc == B.xsrv.primaryCrtc
        xRandMode == FindMode(mode, in.rotation)
    IN  IF mode = in.desktop THEN B
        ELSE IF ~in.xrandr THEN B
        ELSE IF ~in.res THEN B
        ELSE IF ~in.outputInfo \/ ~in.connected THEN B
        ELSE IF ~in.crtcInfo THEN B
        ELSE IF xRandMode = None THEN B
        ELSE [XRRSetCrtcConfig(B, crtc, xRandMode) EXCEPT
                 !.win[w].m_oldVideoMode = B.xsrv.crtcMode[crtc],
                 !.win[w].m_oldRRCrtc = crtc,
                 !.fullscreenWindow = w]

----------------------------------------------------------------------------
(* WindowImplX11::setMouseCursorGrabbed *)

\* setMouseCursorGrabbed without the test for fullscreen mode
setMouseCursorGrabbed_IgnoresFullscreen(B, w, grabbed, o) ==
    IF B.win[w].m_cursorGrabbed = grabbed THEN B
    ELSE IF grabbed
    THEN IF GrabSucceeds(o)
         THEN [B EXCEPT !.xsrv.pointerGrab = B.win[w].m_window, !.win[w].m_cursorGrabbed = TRUE]
         ELSE B
    ELSE [B EXCEPT !.xsrv.pointerGrab = None, !.win[w].m_cursorGrabbed = FALSE]

\* the Xlib calls setMouseCursorGrabbed makes and whether it writes to err()
setMouseCursorGrabbed_Calls(B, w, grabbed, o) ==
    LET none == [XGrabPointer |-> 0, XUngrabPointer |-> 0, err |-> FALSE]
    IN  IF B.win[w].m_fullscreen \/ B.win[w].m_cursorGrabbed = grabbed THEN none
        ELSE IF grabbed
        THEN [none EXCEPT !.XGrabPointer = GrabLoop(o, 0).calls,
                          !.err = ~(B.win[w].m_cursorGrabbed \/ GrabLoop(o, 0).grabbed)]
        ELSE [none EXCEPT !.XUngrabPointer = 1]

\* WindowImplX11::setMouseCursorGrabbed
setMouseCursorGrabbed(B, w, grabbed, o) ==
    IF B.win[w].m_fullscreen \/ B.win[w].m_cursorGrabbed = grabbed THEN B
    ELSE IF grabbed
    THEN IF GrabSucceeds(o)
         THEN [B EXCEPT !.xsrv.pointerGrab = B.win[w].m_window, !.win[w].m_cursorGrabbed = TRUE]
         ELSE B
    ELSE [B EXCEPT !.xsrv.pointerGrab = None, !.win[w].m_cursorGrabbed = FALSE]

----------------------------------------------------------------------------
(* Construction and destruction *)

\* the object a constructor has yet to run on
NoWindow(w) ==
    [Window(w, "windowed", TRUE, FALSE) EXCEPT
        !.life = "none", !.m_hiddenCursor = None, !.m_inputContext = None,
        !.owned = [k \in ResourceKinds |-> 0]]

\* XCreateColormap, XCreatePixmap, XCreatePixmapFromBitmapData, XCreatePixmapCursor
\* or XCreateIC on behalf of the object w
XCreate(B, w, kind) == [B EXCEPT !.win[w].owned[kind] = @ + 1]

\* XFreePixmap, XFreeCursor or XDestroyIC
XFree(B, w, kind) == [B EXCEPT !.win[w].owned[kind] = @ - 1]

\* the input context of initialize(): none when no input method can be opened
\* (the members are those of Window, which assumes one)
createInputContext(B, w) ==
    IF B.xsrv.xim THEN B
    ELSE [B EXCEPT !.win[w].m_inputContext = None, !.win[w].owned["inputContext"] = 0]

\* WindowImplX11::setIcon: nothing changes if XCreateImage fails; otherwise the
\* previous pixmaps are freed and new ones created
setIcon(B, w, imageCreated) ==
    IF ~imageCreated THEN B
    ELSE LET B1 == IF B.win[w].m_iconPixmap # None THEN XFree(B, w, "iconPixmap") ELSE B
             B2 == IF B1.win[w].m_iconMaskPixmap # None THEN XFree(B1, w, "iconMaskPixmap") ELSE B1
             B3 == [XCreate(B2, w, "iconPixmap") EXCEPT !.win[w].m_iconPixmap = 1]
         IN  [XCreate(B3, w, "iconMaskPixmap") EXCEPT !.win[w].m_iconMaskPixmap = 1]

\* the resources the destructor frees: the members that are not null
freeResources(B, w) ==
    LET B1 == IF B.win[w].m_iconPixmap # None THEN XFree(B, w, "iconPixmap") ELSE B
        B2 == IF B1.win[w].m_iconMaskPixmap # None THEN XFree(B1, w, "iconMaskPixmap") ELSE B1
        B3 == IF B2.win[w].m_hiddenCursor # None THEN XFree(B2, w, "hiddenCursor") ELSE B2
    IN  IF B3.win[w].m_inputContext # None THEN XFree(B3, w, "inputContext") ELSE B3

\* WindowImplX11(VideoMode, ...): the window is created and initialize() shows it
\* (setVisible(true), whose loop ends once the server has mapped the window and
\* reported it visible) and grabs the focus; a fullscreen window then switches the
\* video mode and asks for fullscreen state
Constructed(B, w, kind, mode, in, og) ==
    LET fullscreen == (kind = "fullscreen")
        Be == ewmhSupported(B)
        B0 == createInputContext(
                  setProtocols([Be EXCEPT !.win[w] = Window(w, kind, TRUE, FALSE),
                                          !.xsrv.overrideRedirect[w] = fullscreen /\ ~Be.xsrv.ewmh],
                               w), w)
        B1 == IF fullscreen THEN switchToFullscreen(B0, w, og) ELSE B0
        B2 == [B1 EXCEPT !.xsrv.mapped[w] = TRUE,
                         !.xsrv.visibility[w] = "VisibilityUnobscured",
                         !.win[w].m_windowMapped = TRUE]
        B3 == grabFocus(B2, w, og)
    IN  IF fullscreen
        THEN switchToFullscreen(setVideoMode(B3, w, mode, in), w, og)
        ELSE B3

\* the constructor runs on window w, and initialize() registers it in allWindows
Create(w, kind, mode, in) ==
    /\ win[w].life = "none"
    /\ \E og \in FocusOracles :
          /\ SetBundle(Constructed(Bundle, w, kind, mode, in, og))
          /\ lastOp' = Op("create", w, NoEvent, NoEvent,
                          [kind |-> kind, mode |-> mode, in |-> in])
    /\ allWindows' = Append(allWindows, w)
    /\ xqueue' = xqueue \o FocusEvents(xsrv.focus, xsrv'.focus)
    /\ UNCHANGED <<th, audioStream>>

\* WindowImplX11(WindowHandle): the object wraps the window of another client, or
\* no window at all (handle None), and initialize() runs only on a window: it maps
\* the window without waiting, grabs the focus and registers the object
CreateExternal(w, handle) ==
    /\ win[w].life = "none"
    /\ \E og \in GrabFocusOracles :
          LET B0 == [ewmhSupported(Bundle) EXCEPT !.win[w] =
                        IF handle = None
                        THEN [NoWindow(w) EXCEPT !.life = "live", !.m_isExternal = TRUE,
                                                 !.m_window = None]
                        ELSE Window(w, "external", TRUE, FALSE)]
              B1 == IF handle = None THEN B0
                    ELSE grabFocus([createInputContext(setProtocols(B0, w), w)
                                       EXCEPT !.xsrv.mapped[handle] = TRUE], w, og)
          IN  /\ SetBundle(B1)
              /\ lastOp' = Op("create", w, NoEvent, NoEvent,
                              [kind |-> "external", mode |-> <<0, 0>>,
                               in |-> DefaultModeSwitchInput])
    /\ allWindows' = IF handle = None THEN allWindows ELSE Append(allWindows, w)
    /\ xqueue' = xqueue \o FocusEvents(xsrv.focus, xsrv'.focus)
    /\ UNCHANGED <<th, audioStream>>

\* the destructor's test before XDestroyWindow without the test of m_isExternal
destroysWindow_AnyHandle(B, w) == B.win[w].m_window # None

\* the destructor's test before XDestroyWindow
destroysWindow(B, w) == B.win[w].m_window # None /\ ~B.win[w].m_isExternal

\* XDestroyWindow(m_display, m_window)
XDestroyWindow(B, w) ==
    LET handle == B.win[w].m_window IN
    [B EXCEPT !.xsrv.destroyed[handle] = TRUE, !.xsrv.mapped[handle] = FALSE,
              !.xsrv.destroyRequests = @ \cup {handle}]

\* allWindows.erase(std::find(allWindows.begin(), allWindows.end(), this)): the
\* object is removed; when it is not in the list (initialize() never ran) the
\* call is erase(end()), undefined behaviour, after which the list is unchanged
\* or has lost its last element
EraseOutcomes(windows, w) ==
    IF \E i \in 1..Len(windows) : windows[i] = w
    THEN {SelectSeq(windows, LAMBDA v : v # w)}
    ELSE {windows} \cup (IF windows = <<>> THEN {} ELSE {SubSeq(windows, 1, Len(windows) - 1)})

\* ~WindowImplX11
Destroy(w) ==
    /\ th[w].pc = "idle"
    /\ win[w].life = "live"
    /\ \E o \in XRandROracles :
          LET B1 == freeResources(cleanup(Bundle, w, o), w)
              B2 == IF destroysWindow(B1, w) THEN XDestroyWindow(B1, w) ELSE B1
          IN  /\ SetBundle([B2 EXCEPT !.win[w].life = "destroyed"])
              /\ lastOp' = Op("destroy", w, NoEvent, NoEvent, o)
    /\ \E erased \in EraseOutcomes(allWindows, w) : allWindows' = erased
    /\ UNCHANGED <<th, xqueue, audioStream>>

\* the application calls setMouseCursorGrabbed on window w
SetMouseCursorGrabbed(w, grabbed) ==
    /\ th[w].pc = "idle"
    /\ win[w].life = "live"
    /\ \E o \in GrabOracles :
          /\ SetBundle(setMouseCursorGrabbed(Bundle, w, grabbed, o))
          /\ lastOp' = Op("setMouseCursorGrabbed", w, NoEvent, NoEvent,
                          [grabbed |-> grabbed, o |-> o,
                           made |-> setMouseCursorGrabbed_Calls(Bundle, w, grabbed, o)])
    /\ UNCHANGED <<allWindows, th, xqueue, audioStream>>

\* the application calls setIcon on window w
SetIcon(w) ==
    /\ th[w].pc = "idle"
    /\ win[w].life = "live"
    /\ \E imageCreated \in BOOLEAN :
          /\ SetBundle(setIcon(Bundle, w, imageCreated))
          /\ lastOp' = Op("setIcon", w, NoEvent, NoEvent, imageCreated)
    /\ UNCHANGED <<allWindows, th, xqueue, audioStream>>

\* the application calls setMouseCursorVisible on window w
SetMouseCursorVisible(w, visible) ==
    /\ th[w].pc = "idle"
    /\ win[w].life = "live"
    /\ SetBundle(setMouseCursorVisible(Bundle, w, visible))
    /\ lastOp' = Op("setMouseCursorVisible", w, NoEvent, NoEvent, visible)
    /\ UNCHANGED <<allWindows, th, xqueue, audioStream>>

\* another client destroys the X window of w: the program is told by DestroyNotify
ServerDestroy(w) ==
    /\ win[w].life = "live"
    /\ ~xsrv.destroyed[w]
    /\ xsrv.generated < MaxEvents
    /\ xsrv' = [xsrv EXCEPT !.destroyed[w] = TRUE, !.mapped[w] = FALSE, !.generated = @ + 1,
                            !.focus = IF @ = w THEN None ELSE @]
    /\ xqueue' = xqueue \o FocusEvents(xsrv.focus, xsrv'.focus) \o <<XEvent("DestroyNotify", w)>>
    /\ lastOp' = Op("server", None, XEvent("DestroyNotify", w), NoEvent, None)
    /\ UNCHANGED <<win, fullscreenWindow, allWindows, isKeyFiltered, th, audioStream>>

\* another client (a display settings tool) makes the output of another CRTC the
\* primary one
ServerRandR(crtc) ==
    /\ xsrv.generated < MaxEvents
    /\ xsrv.primaryCrtc # crtc
    /\ xsrv' = [xsrv EXCEPT !.primaryCrtc = crtc, !.generated = @ + 1]
    /\ lastOp' = Op("randr", None, NoEvent, NoEvent, None)
    /\ UNCHANGED <<win, fullscreenWindow, allWindows, isKeyFiltered, th, xqueue, audioStream>>

----------------------------------------------------------------------------
(* Fullscreen: windows are created, windowed or fullscreen, polled, grabbed *)
(* and destroyed, while the focus moves and other clients act on the server *)

\* no window of the model exists yet, or window 2 is a fullscreen window whose
\* constructor has switched the primary CRTC from mode 3 to mode 1
InitMode ==
    /\ isKeyFiltered = {}
    /\ th = [w \in Windows |-> IdleThread]
    /\ lastOp = Op("init", None, NoEvent, NoEvent, None)
    /\ audioStream = NoAudioStream
    /\ \E ewmh \in BOOLEAN :
          LET B0 == [win |-> [w \in Windows |-> NoWindow(w)],
                     fullscreenWindow |-> None,
                     isKeyFiltered |-> {},
                     xsrv |-> [Server(ewmh, None, 1) EXCEPT
                                  !.mapped = [w \in Windows |-> FALSE],
                                  !.crtcMode = [c \in Crtcs |-> 3],
                                  !.protocols = [w \in Windows |-> <<>>],
                                  !.netWmPid = [w \in Windows |-> None]]]
              B2 == Constructed(B0, 2, "fullscreen", <<2, 1>>,
                                DefaultModeSwitchInput, DefaultOracle)
          IN  \/ /\ win = B0.win
                 /\ fullscreenWindow = B0.fullscreenWindow
                 /\ xsrv = B0.xsrv
                 /\ allWindows = <<>>
                 /\ xqueue = <<>>
              \/ /\ win = B2.win
                 /\ fullscreenWindow = B2.fullscreenWindow
                 /\ xsrv = B2.xsrv
                 /\ allWindows = <<2>>
                 /\ xqueue = FocusEvents(B0.xsrv.focus, B2.xsrv.focus)

\* window 1 is created in any way
CreateStep ==
    \E mode \in VideoModes :
       \/ Create(1, "windowed", mode, DefaultModeSwitchInput)
       \/ \E in \in ModeSwitchInputs : Create(1, "fullscreen", mode, in)

\* the key events window 1 receives, one at a time
KeyStep == \E t \in {"KeyPress", "KeyRelease"} : xqueue = <<>> /\ ServerKey(1, t, 1, FALSE)

\* windows are created, polled and destroyed by the program or by another client,
\* which may also change the primary output
NextMode ==
    \/ CreateStep
    \/ \E w \in Windows : Destroy(w)
    \/ ProcessEventsStep(1)
    \/ \E b \in BOOLEAN : SetMouseCursorVisible(1, b)
    \/ ServerDestroy(1)
    \/ \E c \in Crtcs : ServerRandR(c)
    \/ KeyStep

SpecMode == InitMode /\ [][NextMode]_vars

----------------------------------------------------------------------------
(* The pointer grab: window 1 is created, windowed or fullscreen, and the   *)
(* application grabs and releases the pointer while the focus comes and goes *)

InitGrab == InitMode /\ fullscreenWindow = None

NextGrab ==
    \/ CreateStep
    \/ Destroy(1)
    \/ ProcessEventsStep(1)
    \/ \E b \in BOOLEAN : SetMouseCursorGrabbed(1, b)
    \/ \E f \in {None, 1} : ServerFocus(f)
    \/ KeyStep

SpecGrab == InitGrab /\ [][NextGrab]_vars

----------------------------------------------------------------------------
(* The life of a window: window 1 is created by SFML or wraps a handle (of   *)
(* another client's window, or no window), is polled and used, and is        *)
(* destroyed, while another client may destroy the X window itself           *)

\* as InitMode, and an input method may be missing
InitLifetime ==
    /\ isKeyFiltered = {}
    /\ th = [w \in Windows |-> IdleThread]
    /\ lastOp = Op("init", None, NoEvent, NoEvent, None)
    /\ audioStream = NoAudioStream
    /\ \E ewmh \in BOOLEAN, xim \in BOOLEAN :
          LET B0 == [win |-> [w \in Windows |-> NoWindow(w)],
                     fullscreenWindow |-> None,
                     isKeyFiltered |-> {},
                     xsrv |-> [Server(ewmh, None, 1) EXCEPT
                                  !.mapped = [w \in Windows |-> FALSE],
                                  !.crtcMode = [c \in Crtcs |-> 3],
                                  !.xim = xim,
                                  !.protocols = [w \in Windows |-> <<>>],
                                  !.netWmPid = [w \in Windows |-> None]]]
              B2 == Constructed(B0, 2, "windowed", <<2, 1>>,
                                DefaultModeSwitchInput, DefaultOracle)
          IN  \/ /\ win = B0.win
                 /\ fullscreenWindow = B0.fullscreenWindow
                 /\ xsrv = B0.xsrv
                 /\ allWindows = <<>>
                 /\ xqueue = <<>>
              \/ /\ win = B2.win
                 /\ fullscreenWindow = B2.fullscreenWindow
                 /\ xsrv = B2.xsrv
                 /\ allWindows = <<2>>
                 /\ xqueue = FocusEvents(B0.xsrv.focus, B2.xsrv.focus)

NextLifetime ==
    \/ CreateStep
    \/ SetIcon(1)
    \/ \E handle \in {None, 1} : CreateExternal(1, handle)
    \/ Destroy(1)
    \/ ProcessEventsStep(1)
    \/ \E b \in BOOLEAN : SetMouseCursorVisible(1, b)
    \/ ServerDestroy(1)
    \/ KeyStep

SpecLifetime == InitLifetime /\ [][NextLifetime]_vars

----------------------------------------------------------------------------
(* Properties of the video mode switch *)

\* the step recorded in op is the constructor of a fullscreen window w, which calls
\* setVideoMode
SetVideoModeBy(op, w) == op.op = "create" /\ op.w = w /\ op.arg.kind = "fullscreen"

\* the step recorded in op runs cleanup on window w: its destructor, or
\* processEvent with a DestroyNotify
CleanupBy(op, w) ==
    /\ op.w = w
    /\ \/ op.op = "destroy"
       \/ \E i \in 1..Len(ProcessedIn(op)) : ProcessedIn(op)[i].type = "DestroyNotify"

\* the screen resources hold a mode of the requested size, width and height
\* exchanged when the CRTC is rotated by 90 or 270 degrees
HasMode(mode, rotation) ==
    LET size == IF rotation \in {"RR_Rotate_90", "RR_Rotate_270"}
                THEN <<mode[2], mode[1]>> ELSE mode
    IN  \E i \in 1..Len(ResModes) : ResModes[i].width = size[1] /\ ResModes[i].height = size[2]

\* the cases in which setVideoMode(mode) is said not to switch
NoSwitch(mode, in) ==
    \/ mode = in.desktop
    \/ ~in.xrandr
    \/ ~in.res \/ ~in.outputInfo \/ ~in.crtcInfo
    \/ ~in.connected
    \/ ~HasMode(mode, in.rotation)

\* the saved CRTC is configured with the saved mode
Restored(w) == xsrv'.crtcMode = [xsrv.crtcMode EXCEPT ![win[w].m_oldRRCrtc] = win[w].m_oldVideoMode]

\* C8 as stated: after a successful setVideoMode the window has saved the CRTC and
\* mode and is fullscreenWindow, and a later resetVideoMode by it (cleanup on
\* DestroyNotify or destruction) reconfigures the saved CRTC with the saved mode
\* and clears fullscreenWindow.
C8_ResetAlwaysRestores ==
    [][\A w \in Windows :
          CleanupBy(lastOp', w) /\ fullscreenWindow = w =>
             Restored(w) /\ fullscreenWindow' = None]_vars

\* C8, amended: a successful setVideoMode saves the CRTC and the mode current before
\* the switch and makes the window fullscreenWindow; a later resetVideoMode by the
\* window while it is still fullscreenWindow reconfigures the saved CRTC with the
\* saved mode and clears fullscreenWindow if XRandR is present and the screen
\* resources and CRTC info can be obtained, only clears fullscreenWindow if XRandR
\* is absent, and changes neither if the resources or the CRTC info cannot be
\* obtained; a cleanup by a window that is not fullscreenWindow changes neither, nor
\* anything else once its X window is destroyed (the destructor's own XDestroyWindow
\* request apart).
C8_ResetRestoresWhenXRandRAnswers ==
    [][\A w \in Windows :
          /\ SetVideoModeBy(lastOp', w) /\ ~NoSwitch(lastOp'.arg.mode, lastOp'.arg.in) =>
                /\ win'[w].m_oldVideoMode = xsrv.crtcMode[xsrv.primaryCrtc]
                /\ win'[w].m_oldRRCrtc = xsrv.primaryCrtc
                /\ fullscreenWindow' = w
          /\ CleanupBy(lastOp', w) =>
                LET o == lastOp'.arg IN
                IF fullscreenWindow = w
                THEN IF o.xrandr /\ o.res /\ o.crtcInfo
                     THEN Restored(w) /\ fullscreenWindow' = None
                     ELSE /\ xsrv'.crtcMode = xsrv.crtcMode
                          /\ fullscreenWindow' = IF o.xrandr THEN w ELSE None
                ELSE /\ xsrv'.crtcMode = xsrv.crtcMode
                     /\ fullscreenWindow' = fullscreenWindow
                     /\ xsrv.destroyed[w] =>
                           [xsrv' EXCEPT !.destroyRequests = xsrv.destroyRequests] = xsrv]_vars

\* the destructor of window 1 has put back the mode of the CRTC it saved, which is
\* no longer the CRTC of the primary output
C8_Witness ==
    /\ lastOp.op = "destroy" /\ lastOp.w = 1
    /\ lastOp.arg = DefaultOracle
    /\ win[1].m_oldRRCrtc # None
    /\ win[1].m_oldRRCrtc # xsrv.primaryCrtc
    /\ xsrv.crtcMode[win[1].m_oldRRCrtc] = win[1].m_oldVideoMode
    /\ fullscreenWindow = None

\* C9: whenever setVideoMode does not switch (the requested mode is the desktop
\* mode, XRandR is absent, the screen resources, output info or CRTC info cannot be
\* obtained, the primary output is disconnected, or no mode has the requested
\* rotation-adjusted size) the display configuration, the saved mode and CRTC and
\* fullscreenWindow stay as they were.
C9_NoSwitchChangesNothing ==
    [][\A w \in Windows :
          SetVideoModeBy(lastOp', w) /\ NoSwitch(lastOp'.arg.mode, lastOp'.arg.in) =>
             /\ xsrv'.crtcMode = xsrv.crtcMode
             /\ xsrv'.primaryCrtc = xsrv.primaryCrtc
             /\ win'[w].m_oldVideoMode = win[w].m_oldVideoMode
             /\ win'[w].m_oldRRCrtc = win[w].m_oldRRCrtc
             /\ fullscreenWindow' = fullscreenWindow]_vars

\* a fullscreen window has been created with every call succeeding, for a size no
\* mode has, while window 2 was fullscreenWindow
C9_Witness ==
    /\ SetVideoModeBy(lastOp, 1)
    /\ lastOp.arg.mode = <<2, 2>>
    /\ lastOp.arg.in = ModeSwitchInput(<<3, 3>>, "none", "RR_Rotate_90")
    /\ fullscreenWindow = 2

----------------------------------------------------------------------------
(* Properties of the pointer grab *)

\* C10: setMouseCursorGrabbed changes nothing on a fullscreen window (no grab, no
\* ungrab, the flag unchanged) nor on a window whose flag already has the requested
\* value; a window stays fullscreen or windowed for life, and the grabbed flag of a
\* fullscreen window is true from construction on.
C10_GrabIgnoredInFullscreen ==
    /\ [](\A w \in Windows :
             win[w].life = "live" /\ win[w].m_fullscreen => win[w].m_cursorGrabbed)
    /\ [][\A w \in Windows :
             /\ win[w].life = "live" /\ win'[w].life = "live" =>
                   win'[w].m_fullscreen = win[w].m_fullscreen
             /\ lastOp'.op = "setMouseCursorGrabbed" /\ lastOp'.w = w
                /\ (win[w].m_fullscreen \/ win[w].m_cursorGrabbed = lastOp'.arg.grabbed) =>
                   UNCHANGED <<win, fullscreenWindow, allWindows, isKeyFiltered, th, xqueue, xsrv>>]_vars

\* setMouseCursorGrabbed(false) has been called on a fullscreen window that holds
\* the pointer grab it took when it gained the focus
C10_Witness ==
    /\ lastOp.op = "setMouseCursorGrabbed" /\ lastOp.w = 1 /\ lastOp.arg.grabbed = FALSE
    /\ win[1].m_fullscreen
    /\ xsrv.pointerGrab = 1

\* a call of setMouseCursorGrabbed(grabbed) on window w that is neither fullscreen
\* nor already in the requested state
GrabCall(w, grabbed) ==
    /\ lastOp'.op = "setMouseCursorGrabbed" /\ lastOp'.w = w
    /\ lastOp'.arg.grabbed = grabbed
    /\ ~win[w].m_fullscreen
    /\ win[w].m_cursorGrabbed = ~grabbed

\* C11: setMouseCursorGrabbed(true) on a non-fullscreen window that is not grabbed
\* calls XGrabPointer at least once and at most maxTrialsCount times, makes no call
\* after the first one that succeeds and none fewer while they fail, and leaves the
\* flag true iff a call succeeded (the pointer is then grabbed by the window); when
\* every call fails the flag stays false, the grab is unchanged and the failure is
\* written to err().  setMouseCursorGrabbed(false) on a grabbed window calls
\* XUngrabPointer once and clears the flag.
C11_GrabTriesAtMostMaxTrials ==
    [][\A w \in Windows :
          /\ GrabCall(w, TRUE) =>
                LET made == lastOp'.arg.made
                    failures == lastOp'.arg.o.grabFailures
                    succeeded == failures < made.XGrabPointer
                IN  /\ made.XGrabPointer \in 1..maxTrialsCount
                    /\ made.XGrabPointer <= failures + 1
                    /\ made.XGrabPointer < maxTrialsCount => succeeded
                    /\ made.XUngrabPointer = 0
                    /\ win'[w].m_cursorGrabbed = succeeded
                    /\ made.err = ~succeeded
                    /\ xsrv'.pointerGrab = IF succeeded THEN win[w].m_window
                                           ELSE xsrv.pointerGrab
          /\ GrabCall(w, FALSE) =>
                /\ lastOp'.arg.made = [XGrabPointer |-> 0, XUngrabPointer |-> 1, err |-> FALSE]
                /\ ~win'[w].m_cursorGrabbed
                /\ xsrv'.pointerGrab = None]_vars

\* setMouseCursorGrabbed(true) has given up on a windowed window after
\* maxTrialsCount failed trials
C11_Witness ==
    /\ lastOp.op = "setMouseCursorGrabbed" /\ lastOp.w = 1 /\ lastOp.arg.grabbed
    /\ lastOp.arg.made.XGrabPointer = maxTrialsCount /\ lastOp.arg.made.err
    /\ ~win[1].m_fullscreen /\ ~win[1].m_cursorGrabbed

----------------------------------------------------------------------------
(* Properties of the life of a window *)

\* C12: the program passes to XDestroyWindow neither the window of an object that
\* wraps an external handle nor the null handle, whatever is done with the object;
\* only a destructor calls XDestroyWindow, on the window of its own object, and the
\* window SFML created is passed to it by the time its object is destroyed.
C12_ExternalWindowNeverDestroyed ==
    /\ [](/\ None \notin xsrv.destroyRequests
          /\ \A w \in Windows :
                /\ win[w].life # "none" /\ win[w].m_isExternal =>
                      win[w].m_window \notin xsrv.destroyRequests
                /\ win[w].life = "destroyed" /\ ~win[w].m_isExternal =>
                      win[w].m_window \in xsrv.destroyRequests)
    /\ [][xsrv'.destroyRequests # xsrv.destroyRequests =>
             /\ lastOp'.op = "destroy"
             /\ xsrv'.destroyRequests = xsrv.destroyRequests \cup {win[lastOp'.w].m_window}]_vars

\* the destructor has run on an object that wrapped the window of another client
C12_Witness ==
    /\ lastOp.op = "destroy" /\ lastOp.w = 1
    /\ win[1].life = "destroyed" /\ win[1].m_isExternal /\ win[1].m_window = 1
    /\ ~xsrv.destroyed[1]

\* the resources of the given kinds that an object created are all freed once its
\* destructor has run, and setIcon never leaves a replaced pixmap behind
ReleasedByDestructor(kinds) ==
    \A w \in Windows :
       /\ win[w].life = "destroyed" => \A k \in kinds : win[w].owned[k] = 0
       /\ \A k \in kinds : win[w].owned[k] <= 1

\* C13: every colormap, icon pixmap, icon mask pixmap, hidden cursor and input
\* context a window created is freed by the end of its destructor, after any
\* sequence of setIcon calls, each of which frees the pixmaps it replaces.
C13_ResourcesReleasedByDestructor == ReleasedByDestructor(ResourceKinds)

\* what the destructor does achieve: the same for every kind but the colormap
C13_AllButColormapReleased == ReleasedByDestructor(ResourceKinds \ {"colormap"})

\* the destructor has run on a window SFML created, after setIcon replaced an icon,
\* while window 2 keeps the connection to the server open
C13_Witness ==
    /\ lastOp.op = "destroy" /\ lastOp.w = 1
    /\ win[1].life = "destroyed" /\ ~win[1].m_isExternal
    /\ win[1].m_iconPixmap # None
    /\ win[2].life = "live"

----------------------------------------------------------------------------
(* Drag and drop: the Xdnd messages of a drag source *)

\* the windows of the clients a drag starts from
DragSources == {RootWindow + 1, RootWindow + 2}

\* the three types an XdndEnter message carries in data.l[2..4]
OfferedTypes ==
    {<<"text/plain", "text/uri-list", "None">>,
     <<"text/uri-list", "None", "None">>,
     <<"text/plain", "image/png", "text/html">>,
     <<"None", "None", "None">>}

\* a drag enters window w: data.l[0] is the source, bit 0 of data.l[1] tells that
\* the source offers more than three types
ServerXdndEnter(w) ==
    \E src \in DragSources : \E more \in {0, 1} : \E types \in OfferedTypes :
       Enqueue(XdndEvent(w, "XdndEnter", <<src, more>> \o types))

\* the drag moves over window w (the handler reads no field of the message)
ServerXdndPosition(w) ==
    \E src \in DragSources : Enqueue(XdndEvent(w, "XdndPosition", <<src>>))

\* the drag is dropped on window w: data.l[2] is the timestamp; XFilterEvent may
\* claim the message
ServerXdndDrop(w) ==
    \E src \in DragSources : \E f \in BOOLEAN :
       Enqueue([XdndEvent(w, "XdndDrop", <<src, 0, xsrv.time>>) EXCEPT !.filtered = f])

\* the drag leaves window w
ServerXdndLeave(w) ==
    \E src \in DragSources : Enqueue(XdndEvent(w, "XdndLeave", <<src>>))

InitDnd == InitPump(TRUE, TRUE)

\* drag sources send their messages to window 1 in any order, while the clock runs
\* and keys are typed
NextDnd ==
    \/ ProcessEventsStep(1)
    \/ ServerXdndEnter(1)
    \/ ServerXdndPosition(1)
    \/ ServerXdndDrop(1)
    \/ ServerXdndLeave(1)
    \/ ServerTick
    \/ KeyStep

SpecDnd == InitDnd /\ [][NextDnd]_vars

\* the event is an XdndDrop message
IsXdndDrop(e) == e.type = "ClientMessage" /\ e.message_type = "XdndDrop"

\* the XdndDrop messages the step recorded in op handed to processEvent
DropsIn(op) == SelectSeq(ProcessedIn(op), IsXdndDrop)

C14_WitnessRefused ==
    /\ lastOp.w = 1 /\ DropsIn(lastOp) # <<>>
    /\ Len(xsrv.xdndSent) = 1
    /\ xsrv.xdndSent[1].data = <<1, 0, "None">>
    /\ xsrv.conversions = {}

----------------------------------------------------------------------------
(* Drag and drop: the answer of the selection owner *)

\* a drag that offers text/uri-list enters window 1 and is dropped on it
EnterOfUriList == XdndEvent(1, "XdndEnter", <<RootWindow + 1, 0, "text/uri-list", "None", "None">>)
DropOfUriList == XdndEvent(1, "XdndDrop", <<RootWindow + 1, 0, 0>>)

\* the windows of InitPump once window 1 has processed the two messages
AfterDrop ==
    LET B0 == [win |-> [w \in Windows |-> Window(w, "windowed", TRUE, TRUE)],
               fullscreenWindow |-> None, isKeyFiltered |-> {},
               xsrv |-> [Server(TRUE, 1, 1) EXCEPT !.cursor[1] = "m_hiddenCursor"]]
    IN  processEvent(processEvent(B0, 1, EnterOfUriList, DefaultOracle),
                     1, DropOfUriList, DefaultOracle)

InitSelection ==
    /\ win = AfterDrop.win
    /\ fullscreenWindow = AfterDrop.fullscreenWindow
    /\ allWindows = <<1, 2>>
    /\ isKeyFiltered = AfterDrop.isKeyFiltered
    /\ th = [w \in Windows |-> IdleThread]
    /\ xqueue = <<>>
    /\ xsrv = AfterDrop.xsrv
    /\ lastOp = Op("init", None, NoEvent, NoEvent, None)
    /\ audioStream = NoAudioStream

\* the owner of a selection answers a conversion window w requested: a
\* SelectionNotify whose requestor is the window and whose selection is the one
\* requested
ServerSelectionNotify(w) ==
    \E c \in xsrv.conversions \ xsrv.answered :
       /\ c.requestor = win[w].m_window
       /\ xsrv.generated < MaxEvents
       /\ xqueue' = Append(xqueue, [XEvent("SelectionNotify", c.requestor) EXCEPT
                                      !.message_type = c.selection])
       /\ xsrv' = [xsrv EXCEPT !.generated = @ + 1, !.answered = @ \cup {c}]
       /\ lastOp' = Op("server", None, xqueue'[Len(xqueue')], NoEvent, None)
       /\ UNCHANGED <<win, fullscreenWindow, allWindows, isKeyFiltered, th, audioStream>>

\* the answer to a conversion of the clipboard, which the window did not request
ServerOtherSelection(w) ==
    Enqueue([XEvent("SelectionNotify", w) EXCEPT !.message_type = "CLIPBOARD"])

NextSelection ==
    \/ ProcessEventsStep(1)
    \/ ServerSelectionNotify(1)
    \/ ServerOtherSelection(1)
    \/ KeyStep

SpecSelection == InitSelection /\ [][NextSelection]_vars

\* the lines of a text: the runs of characters that a new line ends, and the rest
\* if the text does not end with a new line
RECURSIVE LinesOf(_)
LinesOf(text) ==
    IF text = <<>> THEN <<>>
    ELSE LET ends == {k \in DOMAIN text : text[k] = "\n"} IN
         IF ends = {} THEN <<text>>
         ELSE LET k == CHOOSE k \in ends : \A j \in ends : k <= j
              IN  <<SubSeq(text, 1, k - 1)>> \o LinesOf(SubSeq(text, k + 1, Len(text)))

\* a line without a leading "file://"
WithoutFilePrefix(line) ==
    IF Len(line) >= 7 /\ SubSeq(line, 1, 7) = FilePrefix THEN SubSeq(line, 8, Len(line)) ELSE line

\* a line without its trailing new lines and carriage returns
WithoutTrailing(line) ==
    LET keep == {k \in DOMAIN line : line[k] \notin {"\n", "\r"}}
    IN  IF keep = {} THEN <<>> ELSE SubSeq(line, 1, CHOOSE k \in keep : \A j \in keep : j <= k)

\* the list FilesDropped is to carry for a text
DroppedFiles(text) ==
    [i \in DOMAIN LinesOf(text) |-> WithoutTrailing(WithoutFilePrefix(LinesOf(text)[i]))]

IsXdndSelection(e) == e.type = "SelectionNotify" /\ e.message_type = "XdndSelection"

\* the FilesDropped events in a queue of sf::Event
FilesDroppedIn(events) == SelectSeq(events, LAMBDA ev : ev.type = "FilesDropped")

\* the step has processed the answer to the conversion of XdndSelection and pushed
\* one FilesDropped event, the last of the queue, that carries the lines of the
\* text the owner wrote, or no line if the read failed or the type was INCR
PushesDroppedFiles ==
    LET w == lastOp'.w
        p == lastOp'.arg.property
    IN  /\ Len(FilesDroppedIn(win'[w].m_events)) = Len(FilesDroppedIn(win[w].m_events)) + 1
        /\ win'[w].m_events[Len(win'[w].m_events)] =
              [SfEvent("FilesDropped") EXCEPT
                  !.filenames = IF p.success /\ ~p.incr THEN DroppedFiles(p.text) ELSE <<>>]

\* the step has handed the answer to the conversion of XdndSelection to processEvent
ProcessesXdndSelection ==
    \E i \in DOMAIN ProcessedIn(lastOp') : IsXdndSelection(ProcessedIn(lastOp')[i])

\* C15: the FilesDropped event pushed for a SelectionNotify of XdndSelection lists
\* the lines of the text in order, each without a leading "file://" and without
\* its trailing new lines and carriage returns; it lists nothing if the property
\* could not be read or has the type INCR.
C15_FilesDroppedListsLines ==
    [][ProcessesXdndSelection => PushesDroppedFiles]_vars

\* what the handler does achieve: the same whenever the read outside an empty
\* string does not end the process, which only a text with a line of nothing but
\* "file://", new lines and carriage returns can cause
C15_ListsLinesUnlessFault ==
    [][ProcessesXdndSelection =>
          IF \E v \in Windows : win'[v].life = "crashed"
          THEN /\ lastOp'.arg.oob = "fault"
               /\ lastOp'.arg.property.success /\ ~lastOp'.arg.property.incr
               /\ \E i \in DOMAIN DroppedFiles(lastOp'.arg.property.text) :
                     DroppedFiles(lastOp'.arg.property.text)[i] = <<>>
               /\ FilesDroppedIn(win'[lastOp'.w].m_events) = FilesDroppedIn(win[lastOp'.w].m_events)
          ELSE PushesDroppedFiles]_vars

\* window 1 has pushed FilesDropped for a text of two lines, the first with
\* "file://" and a carriage return before the new line
C15_Witness ==
    /\ lastOp.w = 1 /\ lastOp.op = "taken_processed" /\ IsXdndSelection(lastOp.n)
    /\ lastOp.arg.property.text = FilePrefix \o <<"a", "\r", "\n">>
    /\ win[1].m_events # <<>>
    /\ win[1].m_events[Len(win[1].m_events)].filenames = << <<"a">> >>

\* the process has ended in the handler on a text with an empty line
C15_WitnessFault ==
    /\ lastOp.w = 1 /\ lastOp.op = "taken_processed" /\ IsXdndSelection(lastOp.n)
    /\ lastOp.arg.property.text = <<"a", "\n", "\n", "a">>
    /\ win[1].life = "crashed"
    /\ FilesDroppedIn(win[1].m_events) = <<>>

----------------------------------------------------------------------------
(* The window manager protocols: _NET_WM_PING *)

\* no window exists yet; the window manager supports EWMH or not, and any of the
\* optional atoms may not exist yet
InitProtocols ==
    /\ win = [w \in Windows |-> NoWindow(w)]
    /\ fullscreenWindow = None
    /\ allWindows = <<>>
    /\ isKeyFiltered = {}
    /\ th = [w \in Windows |-> IdleThread]
    /\ xqueue = <<>>
    /\ \E ewmh \in BOOLEAN : \E atoms \in SUBSET OptionalAtoms :
          xsrv = [Server(ewmh, None, 1) EXCEPT
                     !.mapped = [w \in Windows |-> FALSE],
                     !.protocols = [w \in Windows |-> <<>>],
                     !.netWmPid = [w \in Windows |-> None],
                     !.atoms = atoms]
    /\ lastOp = Op("init", None, NoEvent, NoEvent, None)
    /\ audioStream = NoAudioStream

\* a client interns an atom that did not exist
ServerInternAtom ==
    \E a \in OptionalAtoms \ xsrv.atoms :
       /\ xsrv' = [xsrv EXCEPT !.atoms = @ \cup {a}]
       /\ lastOp' = Op("intern", None, NoEvent, NoEvent, a)
       /\ UNCHANGED <<win, fullscreenWindow, allWindows, isKeyFiltered, th, xqueue, audioStream>>

\* the WM_PROTOCOLS messages a window manager sends to window w
ProtocolMessages(w) ==
    {ClientMessageEvent(w, "WM_PROTOCOLS", 32, "_NET_WM_PING", f) : f \in BOOLEAN}
    \cup {ClientMessageEvent(w, "WM_PROTOCOLS", 8, "_NET_WM_PING", FALSE),
          ClientMessageEvent(w, "WM_PROTOCOLS", 32, "WM_DELETE_WINDOW", FALSE)}

\* the window manager sends a message to window w, which exists; a message carries
\* an atom that exists
ServerProtocolMessage(w) ==
    \E m \in ProtocolMessages(w) :
       /\ win[w].life = "live"
       /\ m.data0 \in OptionalAtoms => m.data0 \in xsrv.atoms
       /\ Enqueue(m)

NextProtocols ==
    \/ Create(1, "windowed", <<2, 1>>, DefaultModeSwitchInput)
    \/ CreateExternal(1, 1)
    \/ ServerInternAtom
    \/ ServerProtocolMessage(1)
    \/ ProcessEventsStep(1)
    \/ KeyStep

SpecProtocols == InitProtocols /\ [][NextProtocols]_vars

\* the event is a WM_PROTOCOLS message carrying _NET_WM_PING
IsPing(e) ==
    e.type = "ClientMessage" /\ e.message_type = "WM_PROTOCOLS" /\ e.data0 = "_NET_WM_PING"

\* whether WM_PROTOCOLS of window h lists _NET_WM_PING
AdvertisesPing(xs, h) ==
    \E i \in DOMAIN xs.protocols[h] : xs.protocols[h][i] = "_NET_WM_PING"

\* the pings the step recorded in op handed to processEvent
PingsIn(op) == SelectSeq(ProcessedIn(op), IsPing)

\* what a step does with the pings it processes: those of toAnswer, and no other
\* message, are sent back to the root window with the root window as their
\* window, and push no event; what is advertised: a window lists _NET_WM_PING in
\* WM_PROTOCOLS only if EWMH is supported and both atoms exist, and then its
\* _NET_WM_PID is the process id; the constructor lists it if and only if so
PingContract(toAnswer) ==
    LET w == lastOp'.w IN
    /\ xsrv'.pongs = xsrv.pongs + Len(toAnswer)
    /\ toAnswer # <<>> =>
          /\ [to |-> RootWindow, window |-> RootWindow,
              message_type |-> "WM_PROTOCOLS", data0 |-> "_NET_WM_PING"] \in xsrv'.sent
          /\ \A i \in DOMAIN win'[w].m_events :
                i > Len(win[w].m_events) => win'[w].m_events[i].type = "KeyReleased"
    /\ \A h \in Windows :
          /\ AdvertisesPing(xsrv', h) =>
                /\ xsrv'.ewmh /\ OptionalAtoms \subseteq xsrv'.atoms
                /\ xsrv'.netWmPid[h] = Pid
          /\ lastOp'.op = "create" /\ win'[lastOp'.w].m_window = h =>
                (AdvertisesPing(xsrv', h)
                   <=> xsrv.ewmh /\ OptionalAtoms \subseteq xsrv.atoms)

\* C16 as stated: when EWMH is supported, every WM_PROTOCOLS message carrying
\* _NET_WM_PING is sent back to the root window in the call that processes it.
C16_PingAlwaysAnswered ==
    [][PingContract(IF xsrv.ewmh THEN PingsIn(lastOp') ELSE <<>>)]_vars

\* the ping is one processEvent answers: of format 32, not filtered by the input
\* method, with _NET_WM_PING known to the process
Answerable(e) ==
    IsPing(e) /\ e.format = 32 /\ ~e.filtered /\ xsrv'.netWmPing = "_NET_WM_PING"

\* C16: when EWMH was supported and _NET_WM_PING existed at the first WM_PROTOCOLS
\* message the process handled, a WM_PROTOCOLS message of format 32 carrying
\* _NET_WM_PING that the input method does not filter is sent back to the root
\* window, with the root window as its window, in the call that processes it, and
\* pushes no event; no other message is sent back.  _NET_WM_PING is listed in
\* WM_PROTOCOLS only when EWMH is supported and both _NET_WM_PING and _NET_WM_PID
\* exist, and then _NET_WM_PID holds the process id.
C16_PingAnsweredWhenKnown ==
    /\ [](xsrv.netWmPing = "_NET_WM_PING" => xsrv.ewmh)
    /\ [][PingContract(SelectSeq(ProcessedIn(lastOp'), Answerable))]_vars

\* window 1, which lists _NET_WM_PING and holds the process id in _NET_WM_PID, has
\* sent a ping back to the root window
C16_Witness ==
    /\ lastOp.w = 1 /\ PingsIn(lastOp) # <<>>
    /\ xsrv.pongs = 1
    /\ xsrv.protocols[1] = <<"WM_DELETE_WINDOW", "_NET_WM_PING">>
    /\ xsrv.netWmPid[1] = Pid

\* EWMH is supported, yet a ping of format 32 that was not filtered went
\* unanswered: _NET_WM_PING did not exist at the first WM_PROTOCOLS message
C16_WitnessStale ==
    /\ lastOp.w = 1 /\ PingsIn(lastOp) # <<>>
    /\ xsrv.ewmh /\ ~lastOp.n.filtered /\ lastOp.n.format = 32
    /\ xsrv.pongs = 0

----------------------------------------------------------------------------
(* Resizing: ConfigureNotify *)

\* largest width and height of a window
MaxSize == 2
Sizes == (1..MaxSize) \X (1..MaxSize)
Positions == {<<0, 0>>, <<1, 0>>}

\* the server moves or resizes window w, or restacks it
ServerConfigure(w) ==
    \E size \in Sizes : \E position \in Positions :
       Enqueue([XEvent("ConfigureNotify", w) EXCEPT !.size = size, !.position = position])

InitResize == InitPump(TRUE, TRUE)

NextResize ==
    \/ ProcessEventsStep(1)
    \/ ServerConfigure(1)
    \/ KeyStep

SpecResize == InitResize /\ [][NextResize]_vars

\* the Resized events in a queue of sf::Event
ResizedIn(events) == SelectSeq(events, LAMBDA ev : ev.type = "Resized")

\* the ConfigureNotify events the step recorded in op handed to processEvent
ConfiguresIn(op) == SelectSeq(ProcessedIn(op), LAMBDA e : e.type = "ConfigureNotify")

\* C17: a step that processes a ConfigureNotify pushes one Resized event, with the
\* size of the ConfigureNotify, if its width or height differs from the size
\* recorded at the previous Resized event, and then records that size; it pushes
\* nothing and records nothing if the size is the recorded one, as when the window
\* only moved.  No other step pushes Resized, and successive Resized events of a
\* window never carry the same size.
C17_ResizedOnlyOnSizeChange ==
    /\ [](\A w \in Windows :
            LET r == ResizedIn(win[w].m_events) IN
            /\ \A i \in 1..(Len(r) - 1) : r[i].size # r[i + 1].size
            /\ win[w].m_previousSize = IF r = <<>> THEN <<-1, -1>> ELSE r[Len(r)].size)
    /\ [][\A w \in Windows :
            LET c == IF lastOp'.w = w THEN ConfiguresIn(lastOp') ELSE <<>>
                r == ResizedIn(win[w].m_events)
            IN  IF c # <<>> /\ c[1].size # win[w].m_previousSize
                THEN /\ Len(c) = 1
                     /\ ResizedIn(win'[w].m_events) =
                           Append(r, [SfEvent("Resized") EXCEPT !.size = c[1].size])
                     /\ win'[w].m_events[Len(win'[w].m_events)].type = "Resized"
                     /\ win'[w].m_previousSize = c[1].size
                ELSE /\ ResizedIn(win'[w].m_events) = r
                     /\ win'[w].m_previousSize = win[w].m_previousSize]_vars

\* window 1 was resized, then moved: of the two ConfigureNotify events it has
\* processed, the second, with the recorded size, pushed nothing
C17_Witness ==
    /\ xsrv.generated = 2 /\ xqueue = <<>>
    /\ lastOp.w = 1 /\ lastOp.op = "taken_processed" /\ ConfiguresIn(lastOp) # <<>>
    /\ lastOp.n.position # <<0, 0>>
    /\ Len(win[1].m_events) = 1
    /\ win[1].m_events[1] = [SfEvent("Resized") EXCEPT !.size = lastOp.n.size]

----------------------------------------------------------------------------
(* Mouse buttons and wheels: ButtonPress and ButtonRelease *)

\* largest button number the pointer reports
MaxButton == 10

\* a button of the pointer goes down or up over window w, at a time later than
\* any the window has seen
ServerButton(w) ==
    \E type \in {"ButtonPress", "ButtonRelease"} : \E button \in 1..MaxButton :
       Enqueue([XEvent(type, w) EXCEPT !.button = button, !.time = xsrv.time + 1,
                                      !.position = <<1, 0>>])

InitButtons == InitPump(TRUE, TRUE)

NextButtons ==
    \/ ProcessEventsStep(1)
    \/ ServerButton(1)
    \/ KeyStep

SpecButtons == InitButtons /\ [][NextButtons]_vars

\* the mouse button and wheel events in a sequence of sf::Event, without positions
MouseEventsIn(events) ==
    LET m == SelectSeq(events, LAMBDA ev : ev.type \in {"MouseButtonPressed",
                                                        "MouseButtonReleased",
                                                        "MouseWheelScrolled"})
    IN  [i \in DOMAIN m |-> [type |-> m[i].type, button |-> m[i].button,
                             wheel |-> m[i].wheel, delta |-> m[i].delta]]

\* the ButtonPress and ButtonRelease events the step recorded in op handed to
\* processEvent
ButtonsIn(op) ==
    SelectSeq(ProcessedIn(op), LAMBDA e : e.type \in {"ButtonPress", "ButtonRelease"})

\* the mouse events a ButtonPress or a ButtonRelease is to push
MouseEventsFor(e) ==
    LET named == (1 :> "Left") @@ (2 :> "Middle") @@ (3 :> "Right")
                 @@ (8 :> "Extra1") @@ (9 :> "Extra2")
        wheels == (4 :> <<"Vertical", 1>>) @@ (5 :> <<"Vertical", -1>>)
                  @@ (6 :> <<"Horizontal", 1>>) @@ (7 :> <<"Horizontal", -1>>)
    IN  IF e.button \in DOMAIN named
        THEN <<[type |-> IF e.type = "ButtonPress" THEN "MouseButtonPressed"
                         ELSE "MouseButtonReleased",
                button |-> named[e.button], wheel |-> "None", delta |-> 0]>>
        ELSE IF e.button \in DOMAIN wheels /\ e.type = "ButtonRelease"
        THEN <<[type |-> "MouseWheelScrolled", button |-> "None",
                wheel |-> wheels[e.button][1], delta |-> wheels[e.button][2]]>>
        ELSE <<>>

\* C18: a step that processes a ButtonPress or a ButtonRelease of button 1, 2, 3, 8
\* or 9 pushes one MouseButtonPressed or MouseButtonReleased with Left, Middle,
\* Right, Extra1 or Extra2; a ButtonRelease of button 4 or 5 pushes one
\* MouseWheelScrolled of the vertical wheel with delta +1 or -1, of button 6 or 7 one
\* of the horizontal wheel with delta +1 or -1; a ButtonPress of buttons 4 to 7 and
\* any event of another button push nothing, and no other step pushes a mouse
\* button or wheel event.
C18_ButtonsAndWheels ==
    [][\A w \in Windows :
          LET b == IF lastOp'.w = w THEN ButtonsIn(lastOp') ELSE <<>> IN
          /\ Len(b) <= 1
          /\ MouseEventsIn(win'[w].m_events) =
                MouseEventsIn(win[w].m_events) \o (IF b = <<>> THEN <<>> ELSE MouseEventsFor(b[1]))
          /\ b # <<>> /\ MouseEventsFor(b[1]) # <<>> =>
                /\ win'[w].m_events[Len(win'[w].m_events)].type = MouseEventsFor(b[1])[1].type
                /\ win'[w].m_events[Len(win'[w].m_events)].position = b[1].position]_vars

\* window 1 has processed the press and the release of wheel button 7: one
\* MouseWheelScrolled of the horizontal wheel with delta -1 is all it pushed
C18_Witness ==
    /\ xsrv.generated = 2 /\ xqueue = <<>>
    /\ lastOp.w = 1 /\ lastOp.op = "taken_processed"
    /\ lastOp.n.type = "ButtonRelease" /\ lastOp.n.button = 7
    /\ MouseEventsIn(win[1].m_events) =
          <<[type |-> "MouseWheelScrolled", button |-> "None", wheel |-> "Horizontal",
             delta |-> -1]>>
    /\ Len(win[1].m_events) = 1
    /\ win[1].m_lastInputTime # 0

----------------------------------------------------------------------------
(* NetworkAudioStream: onGetData in the audio thread, receiveLoop in the    *)
(* thread that called start.  Each action is one access to the shared       *)
(* members with the code that follows it up to the next one.                *)

\* packets the client sends
MaxPackets == 3
\* largest number of samples in a packet
MaxSampleCount == 2
\* times the stream is played
MaxPlays == 2

serverAudioData == 1
serverEndOfStream == 2

\* what m_client.receive yields: a packet with its id and its samples, or the end
\* of the connection
Packets ==
    {[id |-> serverAudioData, sampleCount |-> n, done |-> TRUE] : n \in 1..MaxSampleCount}
    \cup {[id |-> i, sampleCount |-> 0, done |-> TRUE] : i \in {serverEndOfStream, 3}}
    \cup {[id |-> 0, sampleCount |-> 0, done |-> FALSE]}

\* the window variables, which the example leaves alone
NoWindowStep(op) ==
    /\ lastOp' = Op(op, None, NoEvent, NoEvent, None)
    /\ UNCHANGED <<win, fullscreenWindow, allWindows, isKeyFiltered, th, xqueue, xsrv>>

\* the samples from position first to the end of m_samples
SamplesFrom(as, first) == [i \in 1..(as.m_samples - first) |-> first + i]

\* m_samples.size() read without the mutex.  While receiveLoop is resizing the
\* vector the read races with the write: it yields the old size, the new one, or
\* any value made of parts of both
SizeRead(as) ==
    IF as.receiver = "resize" THEN 0..(MaxPackets * MaxSampleCount) ELSE {as.m_samples}

\* the client sends a packet or closes the connection
ClientSend ==
    /\ audioStream.receiver # "none"
    /\ audioStream.sent < MaxPackets
    /\ \E p \in Packets :
          audioStream' = [audioStream EXCEPT !.network = Append(@, p), !.sent = @ + 1,
                                             !.access = "none"]
    /\ NoWindowStep("send")

\* NetworkAudioStream::start: a client connects, playback starts and receiveLoop
\* is entered
start ==
    /\ audioStream.audio = "stopped" /\ audioStream.receiver = "none"
    /\ ~audioStream.m_hasFinished
    /\ audioStream' = [audioStream EXCEPT !.audio = "playing", !.receiver = "loop",
                                          !.plays = 1, !.access = "none"]
    /\ NoWindowStep("start")

\* doServer plays the stream again once it has stopped: playback restarts at
\* offset 0 (onSeek)
Replay ==
    /\ audioStream.audio = "stopped" /\ audioStream.receiver # "none"
    /\ audioStream.plays < MaxPlays
    /\ audioStream' = [audioStream EXCEPT !.audio = "playing", !.m_offset = 0,
                                          !.plays = @ + 1, !.access = "none"]
    /\ NoWindowStep("play")

\* the audio thread calls onGetData
onGetData_Call ==
    /\ audioStream.audio = "playing"
    /\ audioStream' = [audioStream EXCEPT
                          !.audio = "line76", !.access = "none",
                          !.called = [m_samples |-> audioStream.m_samples,
                                      m_offset |-> audioStream.m_offset,
                                      m_hasFinished |-> audioStream.m_hasFinished]]
    /\ NoWindowStep("onGetData")

\* line 76, first operand: m_offset >= m_samples.size()
onGetData_TestSize ==
    /\ audioStream.audio = "line76"
    /\ \E size \in SizeRead(audioStream) :
          audioStream' = [audioStream EXCEPT
                             !.audio = IF audioStream.m_offset >= size
                                       THEN "line76_finished" ELSE "line80",
                             !.access = "audio"]
    /\ NoWindowStep("test")

\* line 76, second operand: m_hasFinished; return false if it is set
onGetData_TestFinished ==
    /\ audioStream.audio = "line76_finished"
    /\ IF audioStream.m_hasFinished
       THEN /\ audioStream' = [audioStream EXCEPT !.audio = "stopped", !.ret = "false",
                                                  !.data = <<>>, !.access = "none"]
            /\ NoWindowStep("return_false")
       ELSE /\ audioStream' = [audioStream EXCEPT !.audio = "line80", !.access = "none"]
            /\ NoWindowStep("test")

\* line 80, first operand: m_offset >= m_samples.size()
onGetData_WaitSize ==
    /\ audioStream.audio = "line80"
    /\ \E size \in SizeRead(audioStream) :
          audioStream' = [audioStream EXCEPT
                             !.audio = IF audioStream.m_offset >= size
                                       THEN "line80_finished" ELSE "lock",
                             !.access = "audio"]
    /\ NoWindowStep("wait")

\* line 80, second operand: !m_hasFinished; sleep and test again if it holds
onGetData_WaitFinished ==
    /\ audioStream.audio = "line80_finished"
    /\ audioStream' = [audioStream EXCEPT
                          !.audio = IF ~audioStream.m_hasFinished THEN "line80" ELSE "lock",
                          !.access = "none"]
    /\ NoWindowStep("wait")

\* line 86: the audio thread takes the mutex
onGetData_Lock ==
    /\ audioStream.audio = "lock"
    /\ audioStream.m_mutex = "none"
    /\ audioStream' = [audioStream EXCEPT !.audio = "copy", !.m_mutex = "audio",
                                          !.access = "none"]
    /\ NoWindowStep("lock")

\* onGetData copying the samples without telling how far it got
onGetData_Copy_KeepsOffset ==
    /\ audioStream.audio = "copy"
    /\ audioStream' = [audioStream EXCEPT
                          !.m_tempBuffer = SamplesFrom(audioStream, audioStream.m_offset),
                          !.m_mutex = "none",
                          !.data = SamplesFrom(audioStream, audioStream.m_offset),
                          !.ret = "true", !.audio = "playing", !.access = "audio"]
    /\ NoWindowStep("return_true")

\* lines 87 to 96: copy the samples from m_offset on into m_tempBuffer, release
\* the mutex, hand the buffer over, advance m_offset and return true
onGetData_Copy ==
    /\ audioStream.audio = "copy"
    /\ audioStream' = [audioStream EXCEPT
                          !.m_tempBuffer = SamplesFrom(audioStream, audioStream.m_offset),
                          !.m_mutex = "none",
                          !.data = SamplesFrom(audioStream, audioStream.m_offset),
                          !.m_offset = @ + Len(SamplesFrom(audioStream, audioStream.m_offset)),
                          !.ret = "true", !.audio = "playing", !.access = "audio"]
    /\ NoWindowStep("return_true")

\* receiveLoop: the loop test fails, or receive yields the end of the connection
receiveLoop_Exit ==
    /\ audioStream.receiver = "loop"
    /\ \/ audioStream.m_hasFinished
       \/ audioStream.network # <<>> /\ ~Head(audioStream.network).done
    /\ audioStream' = [audioStream EXCEPT !.receiver = "done", !.access = "none"]
    /\ NoWindowStep("exit")

\* receiveLoop: a packet is received; its id tells what it is
receiveLoop_Receive ==
    /\ audioStream.receiver = "loop"
    /\ ~audioStream.m_hasFinished
    /\ audioStream.network # <<>> /\ Head(audioStream.network).done
    /\ LET packet == Head(audioStream.network) IN
       audioStream' =
          IF packet.id = serverAudioData
          THEN [audioStream EXCEPT !.network = Tail(@), !.receiver = "lock",
                                   !.sampleCount = packet.sampleCount, !.access = "none"]
          ELSE [audioStream EXCEPT !.network = Tail(@), !.m_hasFinished = TRUE,
                                   !.access = "none"]
    /\ NoWindowStep("receive")

\* line 133: receiveLoop takes the mutex
receiveLoop_Lock ==
    /\ audioStream.receiver = "lock"
    /\ audioStream.m_mutex = "none"
    /\ audioStream' = [audioStream EXCEPT !.receiver = "resize", !.m_mutex = "receiver",
                                          !.access = "none"]
    /\ NoWindowStep("lock")

\* lines 134 to 137: the samples are appended and the mutex is released
receiveLoop_Resize ==
    /\ audioStream.receiver = "resize"
    /\ audioStream' = [audioStream EXCEPT !.m_samples = @ + audioStream.sampleCount,
                                          !.m_mutex = "none", !.receiver = "loop",
                                          !.access = "receiver"]
    /\ NoWindowStep("resize")

\* doServer has built the stream
InitAudio ==
    /\ win = [w \in Windows |-> NoWindow(w)]
    /\ fullscreenWindow = None
    /\ allWindows = <<>>
    /\ isKeyFiltered = {}
    /\ th = [w \in Windows |-> IdleThread]
    /\ xqueue = <<>>
    /\ xsrv = Server(FALSE, None, 1)
    /\ lastOp = Op("construct", None, NoEvent, NoEvent, None)
    /\ audioStream = NetworkAudioStream("stopped", "none")

NextAudio ==
    \/ start
    \/ ClientSend
    \/ Replay
    \/ onGetData_Call
    \/ onGetData_TestSize
    \/ onGetData_TestFinished
    \/ onGetData_WaitSize
    \/ onGetData_WaitFinished
    \/ onGetData_Lock
    \/ onGetData_Copy
    \/ receiveLoop_Exit
    \/ receiveLoop_Receive
    \/ receiveLoop_Lock
    \/ receiveLoop_Resize

SpecAudio == InitAudio /\ [][NextAudio]_vars

\* all the received samples have been handed over and the stream has finished
AtEnd(as) == as.m_offset >= as.m_samples /\ as.m_hasFinished

\* a call of onGetData that returns true returns the samples received since the
\* previous chunk and advances m_offset by their number; it was not called at the
\* end of a finished stream
ReturnsTrueWithChunk ==
    lastOp'.op = "return_true" =>
       /\ audioStream'.ret = "true"
       /\ audioStream'.data = SamplesFrom(audioStream, audioStream.m_offset)
       /\ audioStream'.m_offset = audioStream.m_offset + Len(audioStream'.data)
       /\ ~AtEnd(audioStream.called)

\* C19: onGetData returns false exactly when m_offset has reached the number of
\* samples received and m_hasFinished is set: it returns false only then, and
\* returns true, with the samples since the previous chunk and m_offset advanced
\* by their number, when that was not so at the call.
C19_FalseExactlyAtEnd ==
    [][/\ lastOp'.op = "return_false" => AtEnd(audioStream)
       /\ ReturnsTrueWithChunk]_vars

\* what onGetData does achieve: it returns false only when m_hasFinished is set,
\* and at the end of the stream unless samples arrived after it was called; the
\* size it compared m_offset with may be out of date by then
C19_FalseOnlyWhenFinished ==
    [][/\ lastOp'.op = "return_false" =>
             /\ audioStream.m_hasFinished
             /\ audioStream.m_samples = audioStream.called.m_samples
                   /\ audioStream.receiver # "resize" => AtEnd(audioStream)
       /\ ReturnsTrueWithChunk]_vars

\* onGetData has returned every sample of a finished stream in two chunks and then
\* false
C19_Witness ==
    /\ lastOp.op = "return_false"
    /\ audioStream.ret = "false" /\ AtEnd(audioStream)
    /\ audioStream.m_offset = 2 * MaxSampleCount
    /\ audioStream.m_tempBuffer = <<MaxSampleCount + 1, 2 * MaxSampleCount>>

\* onGetData has returned false with a sample still to play: it arrived, with the
\* end of the stream, between the two tests of line 76
C19_WitnessLost ==
    /\ lastOp.op = "return_false"
    /\ audioStream.m_offset < audioStream.m_samples

\* C20: receiveLoop and onGetData never read or modify m_samples, its size
\* included, without holding m_mutex.
C20_SamplesOnlyUnderMutex ==
    [][audioStream'.access # "none" => audioStream.m_mutex = audioStream'.access]_vars

\* what the two functions do achieve: m_samples is modified, and copied into
\* m_tempBuffer, only by the thread that holds m_mutex; the accesses without it
\* are the reads of the size in the tests of onGetData
C20_WritesAndCopyUnderMutex ==
    [][/\ audioStream'.m_samples # audioStream.m_samples =>
             audioStream.m_mutex = "receiver" /\ audioStream'.access = "receiver"
       /\ lastOp'.op = "return_true" => audioStream.m_mutex = "audio"
       /\ (audioStream'.access # "none" /\ audioStream.m_mutex # audioStream'.access) =>
             audioStream.audio \in {"line76", "line80"}]_vars

\* the audio thread has read the size of m_samples while receiveLoop held the mutex
\* to resize the vector
C20_Witness ==
    /\ audioStream.access = "audio"
    /\ audioStream.m_mutex = "receiver" /\ audioStream.receiver = "resize"
    /\ audioStream.audio \in {"line76_finished", "line80_finished", "line80", "lock"}

----------------------------------------------------------------------------
(* A held key: the auto-repeat of the server and processEvents of a window *)
(* whose key repeat is disabled                                            *)

\* auto-repeat pairs the server makes for one held key
MaxRepeats == 2

\* the server sends a key event of key 1 to window 1 and the keyboard is then in
\* state keyboard
ServerHeldKey(type, keyboard, repeats) ==
    LET e == KeyEvent(type, 1, 1, xsrv.time, FALSE, FALSE) IN
    /\ xqueue' = Append(xqueue, e)
    /\ xsrv' = [xsrv EXCEPT !.keyboard = keyboard, !.repeats = repeats]
    /\ lastOp' = Op("server", None, e, NoEvent, None)
    /\ UNCHANGED <<win, fullscreenWindow, allWindows, isKeyFiltered, th, audioStream>>

\* the user presses the key
ServerKeyDown == xsrv.keyboard = "up" /\ ServerHeldKey("KeyPress", "down", 0)

\* auto-repeat, first half: the KeyRelease of a pair reaches the connection
ServerRepeatRelease ==
    /\ xsrv.keyboard = "down"
    /\ xsrv.repeats < MaxRepeats
    /\ ServerHeldKey("KeyRelease", "repeating", xsrv.repeats + 1)

\* auto-repeat, second half: the KeyPress of the pair, with the time of its KeyRelease
ServerRepeatPress ==
    /\ xsrv.keyboard = "repeating"
    /\ ServerHeldKey("KeyPress", "down", xsrv.repeats)

\* the user releases the key
ServerKeyUp == xsrv.keyboard = "down" /\ ServerHeldKey("KeyRelease", "released", xsrv.repeats)

\* window 1 is constructed and shown, its key repeat disabled, and no key is down
InitHeld == InitPump(FALSE, TRUE)

\* the user holds key 1 down over window 1 and moves the pointer, except between
\* the two events of a pair, which the server makes together; the application
\* polls window 1
NextHeld ==
    \/ ProcessEventsStep(1)
    \/ ServerKeyDown
    \/ ServerRepeatRelease
    \/ ServerRepeatPress
    \/ ServerKeyUp
    \/ xsrv.keyboard # "repeating" /\ ServerTick
    \/ xsrv.keyboard # "repeating" /\ ServerMotion(1)

SpecHeld == InitHeld /\ [][NextHeld]_vars

\* the number of sf::Events of a type in a sequence
CountOf(events, type) == Cardinality({i \in DOMAIN events : events[i].type = type})

\* the key has been released and window 1 has processed every event of it
HeldKeyHandled ==
    /\ xsrv.keyboard = "released"
    /\ xqueue = <<>>
    /\ th[1].pc = "idle"

\* C21: with key repeat disabled, a key held down and then released produces
\* exactly one KeyPressed and exactly one KeyReleased, however the auto-repeat
\* pairs are distributed over the calls of processEvents, the case where the
\* KeyRelease of a pair is the last event in the queue included.
C21_HeldKeyOnePressOneRelease ==
    HeldKeyHandled =>
        /\ CountOf(win[1].m_events, "KeyPressed") = 1
        /\ CountOf(win[1].m_events, "KeyReleased") = 1

\* what processEvents does achieve: a KeyReleased is pushed before the key is
\* released only when the inner loop finds no event after the KeyRelease of a pair
\* whose KeyPress has not reached the queue, and a second KeyPressed only for the
\* KeyPress of such a pair; a pair that is in the queue whole is discarded
C21_OneEachUnlessPairSplit ==
    [][/\ CountOf(win'[1].m_events, "KeyReleased") # CountOf(win[1].m_events, "KeyReleased") =>
             \/ xsrv.keyboard = "released"
             \/ xsrv.keyboard = "repeating" /\ lastOp'.op = "held_processed" /\ xqueue = <<>>
       /\ CountOf(win'[1].m_events, "KeyPressed") # CountOf(win[1].m_events, "KeyPressed") =>
             /\ lastOp'.op = "taken_processed"
             /\ CountOf(win'[1].m_events, "KeyPressed") =
                   CountOf(win[1].m_events, "KeyReleased") + 1
       /\ HeldKeyHandled' =>
             CountOf(win'[1].m_events, "KeyPressed") = CountOf(win'[1].m_events, "KeyReleased")]_vars

\* the key was held for MaxRepeats pairs, every pair was in the queue whole when
\* processEvents reached it, and the key is released: one KeyPressed, one KeyReleased
C21_Witness ==
    /\ HeldKeyHandled
    /\ xsrv.repeats = MaxRepeats
    /\ CountOf(win[1].m_events, "KeyPressed") = 1
    /\ CountOf(win[1].m_events, "KeyReleased") = 1

\* processEvents has processed the KeyRelease of a pair, the last event in the
\* queue, while the KeyPress of the pair was still to come
C21_WitnessSplit ==
    /\ lastOp.op = "held_processed"
    /\ xsrv.keyboard = "repeating"
    /\ win[1].m_events = <<SfKeyEvent("KeyPressed", 1), SfKeyEvent("KeyReleased", 1)>>

----------------------------------------------------------------------------
(* Key presses and the input method *)

\* a KeyPress reaches window w: one the input method will filter, one it passes
\* on, or a text-only one (keycode 0) it generates itself
ServerImKey(w, keycode, filtered, text) ==
    /\ filtered => xsrv.imFilters /\ ~text
    /\ Enqueue(KeyEvent("KeyPress", w, keycode, xsrv.time, filtered, text))

\* the windows are constructed and shown, with an input method that filters
\* events or with one that never does
InitInputMethod ==
    /\ win = [w \in Windows |-> Window(w, "windowed", TRUE, TRUE)]
    /\ fullscreenWindow = None
    /\ allWindows = <<1, 2>>
    /\ isKeyFiltered = {}
    /\ th = [w \in Windows |-> IdleThread]
    /\ xqueue = <<>>
    /\ \E im \in BOOLEAN : xsrv = [Server(TRUE, 1, 1) EXCEPT !.imFilters = im]
    /\ lastOp = Op("init", None, NoEvent, NoEvent, None)
    /\ audioStream = NoAudioStream

\* keys are typed into both windows through the input method, and both poll
NextInputMethod ==
    \/ \E w \in Windows : ProcessEventsStep(w)
    \/ \E w \in Windows, k \in Keycodes, f \in BOOLEAN, t \in BOOLEAN : ServerImKey(w, k, f, t)
    \/ \E w \in Windows : ServerKey(w, "KeyRelease", 1, FALSE)

SpecInputMethod == InitInputMethod /\ [][NextInputMethod]_vars

\* the KeyPress events the step recorded in op handed to processEvent
KeyPressesIn(op) == SelectSeq(ProcessedIn(op), LAMBDA e : e.type = "KeyPress")

\* the KeyPressed events a step appended to w's queue
PushedKeyPressed(w) == SelectSeq(Pushed(w), LAMBDA ev : ev.type = "KeyPressed")

\* the KeyPressed events of a sequence of sf::Events
PushedKeyPressedIn(events) == SelectSeq(events, LAMBDA ev : ev.type = "KeyPressed")

\* C22: the KeyPress the input method filters pushes one KeyPressed and marks its
\* keycode; an unfiltered KeyPress pushes none if its keycode is marked or 0 and
\* exactly one otherwise, so that an input method that never filters gets one
\* KeyPressed for every KeyPress with a non-zero keycode; the set of marked
\* keycodes is one for all windows and only grows.
C22_OneKeyPressedPerKeyPress ==
    [][/\ isKeyFiltered \subseteq isKeyFiltered'
       /\ ~xsrv.imFilters => isKeyFiltered' = {}
       /\ \A w \in Windows :
             LET ks == IF lastOp'.w = w THEN KeyPressesIn(lastOp') ELSE <<>> IN
             IF ks = <<>>
             THEN PushedKeyPressed(w) = <<>> /\ (lastOp'.w = w => isKeyFiltered' = isKeyFiltered)
             ELSE LET e == ks[1]
                      one == <<SfKeyEvent("KeyPressed", e.keycode)>>
                  IN  /\ Len(ks) = 1
                      /\ e.filtered =>
                            /\ PushedKeyPressed(w) = one
                            /\ isKeyFiltered' = isKeyFiltered \cup {e.keycode}
                      /\ ~e.filtered =>
                            /\ isKeyFiltered' = isKeyFiltered
                            /\ PushedKeyPressed(w) =
                                  IF e.keycode \in isKeyFiltered \/ e.keycode = 0 THEN <<>> ELSE one
                      /\ (~xsrv.imFilters /\ e.keycode # 0) => PushedKeyPressed(w) = one]_vars

\* the input method filtered a KeyPress of key 1 in window 1, which pushed one
\* KeyPressed; the unfiltered KeyPress of the same key that followed, in window 2,
\* has just been processed and pushed none
C22_Witness ==
    /\ lastOp.w = 2
    /\ KeyPressesIn(lastOp) # <<>>
    /\ ~KeyPressesIn(lastOp)[1].filtered
    /\ KeyPressesIn(lastOp)[1].keycode = 1
    /\ isKeyFiltered = {1}
    /\ PushedKeyPressedIn(win[1].m_events) = <<SfKeyEvent("KeyPressed", 1)>>
    /\ PushedKeyPressedIn(win[2].m_events) = <<>>

\* an input method that never filters: two KeyPress events of key 1 processed by
\* window 1, two KeyPressed
C22_WitnessNeverFilters ==
    /\ ~xsrv.imFilters
    /\ lastOp.w = 1
    /\ KeyPressesIn(lastOp) # <<>>
    /\ PushedKeyPressedIn(win[1].m_events) = <<SfKeyEvent("KeyPressed", 1), SfKeyEvent("KeyPressed", 1)>>

----------------------------------------------------------------------------
(* Window managers with and without EWMH *)

\* no window exists yet and ewmhSupported() has not been called; the server has any
\* of the states a window manager, or none, leaves it in
InitEwmh ==
    /\ win = [w \in Windows |-> NoWindow(w)]
    /\ fullscreenWindow = None
    /\ allWindows = <<>>
    /\ isKeyFiltered = {}
    /\ th = [w \in Windows |-> IdleThread]
    /\ xqueue = <<>>
    /\ \E wm \in WmStates :
          xsrv = [Server(FALSE, None, 1) EXCEPT
                     !.mapped = [w \in Windows |-> FALSE],
                     !.protocols = [w \in Windows |-> <<>>],
                     !.netWmPid = [w \in Windows |-> None],
                     !.checked = FALSE,
                     !.wm = wm]
    /\ lastOp = Op("init", None, NoEvent, NoEvent, None)
    /\ audioStream = NoAudioStream

\* a window manager starts, exits or is replaced, which counts among the events of
\* the server
ServerWm ==
    \E wm \in WmStates \ {xsrv.wm} :
       /\ xsrv.generated < MaxEvents
       /\ xsrv' = [xsrv EXCEPT !.wm = wm, !.generated = @ + 1]
       /\ lastOp' = Op("wm", None, NoEvent, NoEvent, None)
       /\ UNCHANGED <<win, fullscreenWindow, allWindows, isKeyFiltered, th, xqueue, audioStream>>

\* the application creates window 1, windowed or fullscreen, asks for the focus and
\* polls, while window managers come and go and the one running pings the window
NextEwmh ==
    \/ \E kind \in {"windowed", "fullscreen"} : Create(1, kind, <<2, 1>>, DefaultModeSwitchInput)
    \/ RequestFocus(1)
    \/ ServerWm
    \/ ServerProtocolMessage(1)
    \/ ProcessEventsStep(1)
    \/ KeyStep

SpecEwmh == InitEwmh /\ [][NextEwmh]_vars

\* the window manager conforms to EWMH: both atoms exist and the window the root
\* names in _NET_SUPPORTING_WM_CHECK names itself
Conforming(wm) == wm.atoms /\ wm.root # None /\ wm.root = wm.child

\* the step is a requestFocus of w that reached the raise-or-message choice of
\* grabFocus
GrabFocusBy(op, w) ==
    /\ op.op = "requestFocus" /\ op.w = w
    /\ op.arg.o.attributes
    /\ sfmlWindowFocused(Bundle, allWindows)
    /\ MapState(xsrv, w) = "IsViewable"
    /\ XGetWindowAttributes(Bundle, w, op.arg.og) # "IsUnmapped"

\* the last step was a requestFocus of window 1 whose calls all succeeded
GrabFocusBySeen ==
    /\ lastOp.op = "requestFocus" /\ lastOp.w = 1
    /\ lastOp.arg.o = DefaultOracle /\ lastOp.arg.og = DefaultOracle

\* C23: _NET_ACTIVE_WINDOW, _NET_WM_STATE and the _NET_WM_PING reply are sent to the
\* root window only when ewmhSupported() is true; when it is false grabFocus raises
\* the window and sets the input focus itself, and a fullscreen window is created
\* with override-redirect and no request for fullscreen state; ewmhSupported() reads
\* the server on its first call only and answers the same on every later call.
C23_DegradesWithoutEwmh ==
    [][/\ \A m \in xsrv'.sent \ xsrv.sent :
             /\ m.to = RootWindow
             /\ m.message_type \in {"_NET_ACTIVE_WINDOW", "_NET_WM_STATE", "WM_PROTOCOLS"}
             /\ xsrv'.checked /\ xsrv'.ewmh
       /\ \A w \in Windows :
             /\ GrabFocusBy(lastOp', w) =>
                   IF xsrv.ewmh
                   THEN /\ xsrv'.stackTop = xsrv.stackTop /\ xsrv'.focus = xsrv.focus
                        /\ lastOp'.arg.og.sendOk =>
                              \E m \in xsrv'.sent :
                                 m.message_type = "_NET_ACTIVE_WINDOW" /\ m.window = win[w].m_window
                   ELSE /\ xsrv'.stackTop = win[w].m_window
                        /\ xsrv'.focus = win[w].m_window
                        /\ xsrv'.sent = xsrv.sent
             /\ (lastOp'.op = "create" /\ lastOp'.w = w) =>
                   /\ xsrv'.checked
                   /\ xsrv'.overrideRedirect[w] = (win'[w].m_fullscreen /\ ~xsrv'.ewmh)
                   /\ ~xsrv'.ewmh =>
                         /\ xsrv'.sent = xsrv.sent
                         /\ xsrv'.stackTop \in {win'[w].m_window, xsrv.stackTop}
       /\ xsrv.checked => xsrv'.checked /\ xsrv'.ewmh = xsrv.ewmh
       /\ (~xsrv.checked /\ xsrv'.checked) =>
             lastOp'.op = "create" /\ xsrv'.ewmh = Conforming(xsrv.wm)
       /\ ~xsrv'.checked => ~xsrv'.ewmh]_vars

\* ewmhSupported() answered false when the fullscreen window 1 was created with
\* override-redirect; a conforming window manager runs now, and requestFocus has
\* still raised the window and set the focus itself, with no message to the root
C23_Witness ==
    /\ GrabFocusBySeen
    /\ xsrv.checked /\ ~xsrv.ewmh
    /\ Conforming(xsrv.wm)
    /\ win[1].m_fullscreen /\ xsrv.overrideRedirect[1]
    /\ xsrv.stackTop = win[1].m_window /\ xsrv.focus = win[1].m_window
    /\ xsrv.sent = {}

\* with EWMH: the fullscreen window 1 was created without override-redirect, the
\* three messages have gone to the root window, and the window manager has exited
C23_WitnessEwmh ==
    /\ xsrv.checked /\ xsrv.ewmh
    /\ ~Conforming(xsrv.wm)
    /\ win[1].m_fullscreen /\ ~xsrv.overrideRedirect[1]
    /\ {m.message_type : m \in xsrv.sent} = {"_NET_ACTIVE_WINDOW", "_NET_WM_STATE", "WM_PROTOCOLS"}
    /\ xsrv.pongs > 0

====
